---------------------------- MODULE Spec2Model ----------------------------
(***************************************************************************)
(* wnrake: the resilient fetch layer.                                      *)
(*                                                                         *)
(*   ClientSpec    one Client (lib/client.rs): session create/destroy and  *)
(*                 n_attempts, the retry-with-recovery loop, stepped at    *)
(*                 every solver or proxy call.                             *)
(*   DownloadSpec  the download command (src/download.rs): the worker pool *)
(*                 over the shared queue, and the single-threaded run.     *)
(***************************************************************************)
EXTENDS Integers, Sequences, FiniteSets, TLC

\* ------------------------------------------------------------------ bounds

\* n_attempts is explored for every budget 1..MaxAttempts; the one call in the
\* source passes 5 (client.rs:235).
MaxAttempts == 5

\* multi_thread runs 2..MaxWorkers workers (execute sends fewer than 2 proxies
\* elsewhere, download.rs:34-41).
MaxWorkers == 2

\* urlcache.txt holds 0..MaxUrls lines.
MaxUrls == 2

\* download_chapter fails for one index 0..MaxFails times before it succeeds,
\* or every time (Poisoned).
MaxFails == 1

VARIABLES
    \* ---- Client (lib/client.rs)
    session,          \* Client.session: "none" or "held"
    has_proxy,        \* Client.proxy is Some
    has_api,          \* Proxy.api is Some
    max_attempts,     \* n_attempts' parameter
    attempts,         \* n_attempts' local counter
    cpc,              \* where the client's caller / n_attempts stands
    cres,             \* what n_attempts returned
    live_held,        \* the solver still has the session of the last token issued
    live_lost,        \* sessions the solver has whose token the client lacks
    \* ---- what happened in the current n_attempts call (history)
    first_res,        \* what its first fetch returned
    last_err,         \* the most recent non-fatal error it matched on
    n_fetch,          \* calls of fetch
    n_fetch_fail,     \* ... that failed non-fatally
    n_fetch_solution, \* ... that failed with a non-fatal Solution error
    n_recover,        \* calls of recover
    n_rec_ok,         \* ... that returned Ok
    n_rec_fail,       \* ... that failed non-fatally
    n_destroy,        \* calls of destroy_session
    n_restart,        \* calls of Proxy::restart
    n_create,         \* calls of create_session
    rec_step,         \* the step of recover that ran last
    rec_res,          \* ... and what it returned
    fetch_env,        \* the solver's answer to the fetch just matched on
    fetch_res         \* ... and what fetch made of it

cvars == << session, has_proxy, has_api, max_attempts, attempts, cpc, cres,
            live_held, live_lost,
            first_res, last_err, n_fetch, n_fetch_fail, n_fetch_solution,
            n_recover, n_rec_ok, n_rec_fail, n_destroy, n_restart, n_create,
            rec_step, rec_res, fetch_env, fetch_res >>

hvars == << first_res, last_err, n_fetch, n_fetch_fail, n_fetch_solution,
            n_recover, n_rec_ok, n_rec_fail, n_destroy, n_restart, n_create,
            rec_step, rec_res, fetch_env, fetch_res >>

    \* ---- the download command (src/download.rs)
VARIABLES
    mode,           \* "single" (single_thread) or "multi" (multi_thread)
    nworkers,       \* proxies.len(): one Worker per configured proxy
    total,          \* total_chapters: the lines of urlcache.txt
    urls,           \* Worker.urls: the shared VecDeque<(usize, String)>
    staging,        \* the chapter files present under staging/
    fails,          \* per index: how often download_chapter will still fail
    wpc,            \* per worker: where do_work (or single_thread) stands
    task,           \* per worker: the item popped and not yet settled
    wsession,       \* per worker: its Client.session
    wcreated,       \* per worker: its create_session succeeded (history)
    n_wdestroy,     \* per worker: calls of destroy_session (history)
    delivered,      \* the items download_chapter returned Ok for (history)
    failed,         \* the indexes download_chapter returned Err for (history)
    fetched,        \* the indexes get_chapter was called for in this run (history)
    sidx,           \* single_thread: the index its loop stands at
    sres,           \* single_thread: the closure's result `res`
    joined,         \* multi_thread: the futures awaited so far
    lock,           \* the queue's Mutex: the workers holding a guard of it
    opc,            \* the command: "running" or "done"
    result          \* what execute returned

dvars == << mode, nworkers, total, urls, lock, staging, fails, fetched, wpc, task, wsession,
            wcreated, n_wdestroy, delivered, failed, sidx, sres, joined,
            opc, result >>

    \* ---- Api::restart against the proxy's control server (lib/proxy/api.rs)
VARIABLES
    rpc,            \* where Api::restart stands
    seconds,        \* its parameter: the window of each wait
    elapsed,        \* the seconds of the current wait's window that have passed
    ctl_state,      \* the control server: the VPN's status
    ctl_ip,         \* the control server: a public IP is known
    ctl_pending,    \* the control server: a state it was asked for and has not reached
    trace,          \* the requests restart sent and what its waits observed (history)
    polls,          \* status polls since the last request restart sent (history)
    rres            \* what Api::restart returned

rvars == << rpc, seconds, elapsed, ctl_state, ctl_ip, ctl_pending, trace, polls, rres >>

    \* ---- the response cache (lib/cache.rs) and Client::_get over it
VARIABLES
    today,          \* the calendar day, Local::now().date_naive()
    cache_prefix,   \* Cache.prefix: the day the Cache was made, 0 before Cache::new
    cache_dir,      \* the files of Cache.dir: name |-> [body, day it was written]
    last_op,        \* the cache operation that ran last and what it returned (history)
    fresh,          \* the last insert that succeeded, while only gets of its URL followed (history)
    gets_since,     \* ... and how many such gets followed, up to 2 (history)
    origin          \* << file name, URL >>: the URL whose insert wrote the file (history)

kvars == << today, cache_prefix, cache_dir, last_op, fresh, gets_since, origin >>

    \* ---- the runtime's scheduler under the spawned workers (src/main.rs:117)
VARIABLES
    threads,        \* the threads of the runtime that poll tasks
    tstate          \* per spawned task: "ready", "polled", "sleeping", "awaiting io"

svars == << threads, tstate >>

    \* ---- the run of one worker, from the command down to the solver
VARIABLES
    has_cache,      \* whether the client was built with a Cache (config.rs:157-159)
    cached,         \* the items whose page the Cache holds
    rejected,       \* the items whose page get_chapter found invalid (history)
    page_fetches    \* per item: the solver fetches made for it (history)

evars == << has_cache, cached, rejected, page_fetches >>

    \* ---- the proxy a client is built with, and what create_session sends
VARIABLES
    proxy_conf,     \* Proxy { url, username, password }, or the token for no proxy
    sent            \* the JSON object posted by create_session, or the token for none

pvars == << proxy_conf, sent >>

vars == << cvars, dvars, rvars, kvars, svars, evars, pvars >>

\* How long a wait of Api::restart may last, in polls of one second; recover
\* passes 60 (client.rs:288).
MaxSeconds == 3

\* ------------------------------------------------------------------ errors

\* error.rs: struct Error { error_type, fatal, message }
Error(t, f, m) == [ok |-> FALSE, error_type |-> t, fatal |-> f, message |-> m]

\* Result::Ok(v), in the shape of Error so that results compare.
Ok(v) == [ok |-> TRUE, error_type |-> "None", fatal |-> FALSE, message |-> v]

\* No result yet.
NoResult == Ok("unset")

\* The two substrings parse_solution_error looks for.
TunnelMarker == "ERR_TUNNEL_CONNECTION_FAILED"

ChallengeMarker == "Error solving the challenge"

\* The solver's free-text messages: with one marker, with both, with neither.
Messages == { "net::ERR_TUNNEL_CONNECTION_FAILED",
              "Error solving the challenge. Timeout",
              "Error solving the challenge. net::ERR_TUNNEL_CONNECTION_FAILED",
              "Error: unknown command" }

\* str::contains, on the messages above.
Contains(message, marker) ==
    CASE message = "net::ERR_TUNNEL_CONNECTION_FAILED" -> marker = TunnelMarker
      [] message = "Error solving the challenge. Timeout" -> marker = ChallengeMarker
      [] message = "Error solving the challenge. net::ERR_TUNNEL_CONNECTION_FAILED" ->
             marker \in {TunnelMarker, ChallengeMarker}
      [] OTHER -> FALSE

parse_solution_error_tunnel_retried(message) ==
    IF Contains(message, TunnelMarker) THEN Error("Proxy", FALSE, message)
    ELSE IF Contains(message, ChallengeMarker) THEN Error("Solution", FALSE, message)
    ELSE Error("Solver", TRUE, message)

parse_solution_error_challenge_first(message) ==
    IF Contains(message, ChallengeMarker) THEN Error("Solution", FALSE, message)
    ELSE IF Contains(message, TunnelMarker) THEN Error("Proxy", TRUE, message)
    ELSE Error("Solver", TRUE, message)

\* Error::parse_solution_error
parse_solution_error(message) ==
    IF Contains(message, TunnelMarker) THEN Error("Proxy", TRUE, message)
    ELSE IF Contains(message, ChallengeMarker) THEN Error("Solution", FALSE, message)
    ELSE Error("Solver", TRUE, message)

\* ------------------------------------------------------- solver responses

\* What one POST to the solver can come back with: the request fails in
\* transit, the body is no JSON envelope, or an envelope (solution.rs).
Responses ==
    [ net : {"ok"}, json : {TRUE}, status : {"ok", "error"}, message : Messages,
      has_session : BOOLEAN, has_solution : BOOLEAN, sol_status : {200, 404} ]
    \cup
    [ net : {"fail"}, json : {TRUE}, status : {"error"}, message : {"Error: unknown command"},
      has_session : {FALSE}, has_solution : {FALSE}, sol_status : {404} ]
    \cup
    [ net : {"ok"}, json : {FALSE}, status : {"error"}, message : {"Error: unknown command"},
      has_session : {FALSE}, has_solution : {FALSE}, sol_status : {404} ]

\* No answer at hand.
NoResponse ==
    [ net |-> "none", json |-> FALSE, status |-> "none", message |-> "none",
      has_session |-> FALSE, has_solution |-> FALSE, sol_status |-> 0 ]

\* Client::post_data
post_data(r) ==
    IF r.net = "fail" THEN Error("Solver", TRUE, "error sending request")
    ELSE IF ~r.json THEN Error("Json", TRUE, "error decoding response body")
    ELSE IF r.status = "ok" THEN Ok("envelope")
    ELSE parse_solution_error(r.message)

\* Client::fetch
fetch(r) ==
    LET res == post_data(r) IN
    IF ~res.ok THEN res
    ELSE IF r.has_solution
         THEN IF r.sol_status = 200 THEN Ok("response")
              ELSE Error("Status", TRUE, "returned status 404")
         ELSE Error("Solution", FALSE, "no solution in response")

create_session_no_token_fatal(r) ==
    LET res == post_data(r) IN
    IF ~res.ok THEN res
    ELSE IF r.has_session THEN Ok("session")
         ELSE Error("Solution", TRUE, "no session in response")

\* Client::create_session, its result
create_session(r) ==
    LET res == post_data(r) IN
    IF ~res.ok THEN res
    ELSE IF r.has_session THEN Ok("session")
         ELSE Error("Solution", FALSE, "no session in response")

\* Client::destroy_session, its result: the destroy command is sent only when a
\* session is held, and only the transport can fail it.
destroy_session(held, net) ==
    IF held = "held" /\ net = "fail" THEN Error("Solver", TRUE, "error sending request")
    ELSE Ok("destroyed")

\* Every result create_session can return.
CreateSessionResults == { create_session(r) : r \in Responses }

\* The outcomes of Proxy::restart: without a control API it does nothing;
\* with one, Api::restart converges or one of its waits times out.
RestartOutcomes ==
    IF has_api
    THEN { Ok("restarted"),
           Error("Proxy", FALSE, "waiting for proxy timed out"),
           Error("Proxy", FALSE, "waiting for IP timed out") }
    ELSE { Ok("restarted") }

\* ------------------------------------------------- the download command

\* download_chapter fails for this index on every call.
Poisoned == 0 - 1

NoTask == << >>

\* Line i of urlcache.txt.
Url(i) == << "https://site", i + 1 >>

\* download.rs:87, `url_cache.0.into_iter().enumerate()`
Item(i) == << i, Url(i) >>

Items == { Item(i) : i \in 0..(total - 1) }

Workers == 1..nworkers

\* download.rs:87: the queue multi_thread builds, in file order.
Backlog(n) == [ k \in 1..n |-> Item(k - 1) ]

\* utils.rs:15-18, the mutant first: the index is left out of the name.
url_to_filename_unindexed(i, url) == << 0, url[2] >>

\* utils.rs:15-18 and download.rs:131-132: the staging file of an item.
url_to_filename(i, url) == << i, url[2] >>

RECURSIVE SeqCount(_, _)
\* How often x occurs in sequence q.
SeqCount(q, x) ==
    IF q = << >> THEN 0
    ELSE (IF Head(q) = x THEN 1 ELSE 0) + SeqCount(Tail(q), x)

\* Api::restart's variables while it is not exercised.
\* The results of Cache::get: Ok(Some(body)), Ok(None), Err(e).
Found(body) == [ok |-> TRUE, some |-> TRUE, body |-> body, error |-> NoResult]

NotFound == [ok |-> TRUE, some |-> FALSE, body |-> "", error |-> NoResult]

GetFailed(e) == [ok |-> FALSE, some |-> FALSE, body |-> "", error |-> e]

\* No cache operation has run.
NoOp ==
    [ op |-> "none", url |-> << >>, data |-> "", got |-> NotFound, res |-> NoResult,
      fetched |-> NoResult, requests |-> 0, recoveries |-> 0,
      session_before |-> "none", dir_before |-> {}, day |-> 0 ]

NoFresh == [ url |-> << >>, data |-> "" ]

\* No cache is configured and no day has passed.
CacheIdle ==
    /\ today = 1
    /\ cache_prefix = 0
    /\ cache_dir = {}
    /\ last_op = NoOp
    /\ fresh = NoFresh
    /\ gets_since = 0
    /\ origin = {}

\* No run of one worker is looked at.
RunIdle ==
    /\ has_cache = FALSE
    /\ cached = {}
    /\ rejected = {}
    /\ page_fetches = << >>

\* An absent Option, and an absent key of a JSON object.
None == "<none>"

\* Client.proxy = None.
NoProxy == [ url |-> None, username |-> None, password |-> None ]

\* Nothing was posted.
NoData == [ cmd |-> None, proxy |-> NoProxy ]

\* No proxy is looked at.
ProxyIdle ==
    /\ proxy_conf = NoProxy
    /\ sent = NoData

\* No task is spawned on the runtime.
SchedIdle ==
    /\ threads = 0
    /\ tstate = << >>

RestartIdle ==
    /\ rpc = "none"
    /\ seconds = 0
    /\ elapsed = 0
    /\ ctl_state = "none"
    /\ ctl_ip = FALSE
    /\ ctl_pending = "none"
    /\ trace = << >>
    /\ polls = 0
    /\ rres = NoResult

\* The download command's variables while only the client is exercised.
DownloadIdle ==
    /\ mode = "none"
    /\ nworkers = 0
    /\ total = 0
    /\ urls = << >>
    /\ lock = {}
    /\ staging = {}
    /\ fails = << >>
    /\ wpc = << >>
    /\ task = << >>
    /\ wsession = << >>
    /\ wcreated = << >>
    /\ n_wdestroy = << >>
    /\ delivered = {}
    /\ failed = {}
    /\ fetched = {}
    /\ sidx = 0
    /\ sres = NoResult
    /\ joined = 0
    /\ opc = "none"
    /\ result = NoResult

\* ------------------------------------------------------------- n_attempts

BudgetExhaustedOffByOne(a, n) == a > n

\* client.rs:278 and :297, `attempts >= max_attempts`
BudgetExhausted(a, n) == a >= n

fatal_ignored(e) == FALSE

\* client.rs:270 and :289, `match e.fatal`
is_fatal(e) == e.fatal

RecoverFailureNotCounted(a) == a

\* client.rs:295, a non-fatal recovery failure takes one attempt of the budget
CountRecoverFailure(a) == a + 1

\* client.rs:276, a non-fatal fetch failure takes one attempt of the budget
CountFetchFailure(a) == a + 1

\* Whether the solver made a session for a sessions.create request: it did
\* when it answered with the token; when the request or its answer was lost or
\* unreadable it may or may not have (reached).
session_made(r, reached) ==
    IF r.net = "ok" /\ r.json THEN r.status = "ok" /\ r.has_session ELSE reached

destroy_not_sent(alive, held, net, reached) == alive

\* Whether the solver still has the client's session after destroy_session:
\* the request is sent for a held session (client.rs:190-198) and ends the
\* session when it arrives; a request that failed in transit may have arrived.
alive_after_destroy(alive, held, net, reached) ==
    alive /\ ~(held = "held" /\ (net = "ok" \/ reached))

\* The solver's side of create_session(r) returning res.
CreateAtSolver(r, res) ==
    \E reached \in BOOLEAN :
        /\ live_held' = IF res.ok THEN TRUE ELSE live_held
        /\ live_lost' = live_lost +
              (IF res.ok THEN (IF live_held THEN 1 ELSE 0)
               ELSE IF session_made(r, reached) THEN 1 ELSE 0)

\* The solver's side of destroy_session.
DestroyAtSolver(net) ==
    \E reached \in BOOLEAN :
        /\ live_held' = alive_after_destroy(live_held, session, net, reached)
        /\ live_lost' = live_lost

NoHistory ==
    /\ first_res = NoResult
    /\ last_err = NoResult
    /\ n_fetch = 0 /\ n_fetch_fail = 0 /\ n_fetch_solution = 0
    /\ n_recover = 0 /\ n_rec_ok = 0 /\ n_rec_fail = 0
    /\ n_destroy = 0 /\ n_restart = 0 /\ n_create = 0
    /\ rec_step = "none" /\ rec_res = NoResult
    /\ fetch_env = NoResponse /\ fetch_res = NoResult

\* Client::new_internal, under every proxy configuration.
ClientInit ==
    /\ session = "none"
    /\ has_proxy \in BOOLEAN
    /\ has_api \in BOOLEAN
    /\ has_api => has_proxy
    /\ max_attempts = 1
    /\ attempts = 0
    /\ cpc = "new"
    /\ cres = NoResult
    /\ live_held = FALSE
    /\ live_lost = 0
    /\ NoHistory
    /\ DownloadIdle
    /\ RestartIdle
    /\ CacheIdle
    /\ SchedIdle
    /\ RunIdle
    /\ ProxyIdle

\* The caller's create_session before its first request (download.rs:54, :167).
CallerCreateSession ==
    /\ UNCHANGED << dvars, rvars, kvars, svars, evars, pvars >>
    /\ cpc = "new"
    /\ \E r \in Responses :
         LET res == create_session(r) IN
         /\ session' = IF res.ok THEN "held" ELSE session
         /\ cpc' = IF res.ok THEN "ready" ELSE "closed"
         /\ cres' = res
         /\ CreateAtSolver(r, res)
    /\ UNCHANGED << has_proxy, has_api, max_attempts, attempts, hvars >>

\* n_attempts is entered: client.rs:264-265.
n_attempts_call ==
    /\ UNCHANGED << dvars, rvars, kvars, svars, evars, pvars >>
    /\ cpc = "ready"
    /\ \E n \in 1..MaxAttempts : max_attempts' = n
    /\ attempts' = 0
    /\ cpc' = "fetch"
    /\ cres' = NoResult
    /\ UNCHANGED << session, has_proxy, has_api, live_held, live_lost, hvars >>

\* client.rs:268-283: one fetch and the match on its result.
n_attempts_fetch ==
    /\ UNCHANGED << dvars, rvars, kvars, svars, evars, pvars >>
    /\ cpc = "fetch"
    /\ \E r \in Responses :
         LET res == fetch(r)
             a   == CountFetchFailure(attempts) IN
         /\ n_fetch' = n_fetch + 1
         /\ fetch_env' = r
         /\ fetch_res' = res
         /\ first_res' = IF n_fetch = 0 THEN res ELSE first_res
         /\ IF res.ok \/ is_fatal(res)
            THEN /\ cres' = res
                 /\ cpc' = "returned"
                 /\ UNCHANGED << attempts, last_err, n_fetch_fail, n_fetch_solution >>
            ELSE /\ attempts' = a
                 /\ last_err' = res
                 /\ n_fetch_fail' = n_fetch_fail + 1
                 /\ n_fetch_solution' =
                        n_fetch_solution + (IF res.error_type = "Solution" THEN 1 ELSE 0)
                 /\ IF BudgetExhausted(a, max_attempts)
                    THEN cres' = res /\ cpc' = "returned"
                    ELSE cres' = cres /\ cpc' = "destroy"
    /\ UNCHANGED << session, has_proxy, has_api, max_attempts, n_recover, n_rec_ok,
                    n_rec_fail, n_destroy, n_restart, n_create, rec_step, rec_res,
                    live_held, live_lost >>

recover_failure_refetches == "fetch"

\* client.rs:286-303: the inner `loop` around recover; a non-fatal failure
\* within the budget goes round it again, and only `Ok(_) => break` leaves it
\* for the next fetch.
after_recover_failure == "destroy"

\* What n_attempts does with a failed recover: client.rs:289-301.
RecoverFailed(e) ==
    IF is_fatal(e)
    THEN /\ cres' = e
         /\ cpc' = "returned"
         /\ UNCHANGED << attempts, last_err, n_rec_fail >>
    ELSE /\ attempts' = CountRecoverFailure(attempts)
         /\ last_err' = e
         /\ n_rec_fail' = n_rec_fail + 1
         /\ IF BudgetExhausted(attempts', max_attempts)
            THEN cres' = e /\ cpc' = "returned"
            ELSE cres' = cres /\ cpc' = after_recover_failure

restart_skipped == "create"

\* client.rs:251: `if let Some(proxy) = &self.proxy`, after destroy_session
\* returned Ok.
after_destroy_session == IF has_proxy THEN "restart" ELSE "create"

\* recover, first step: destroy_session (client.rs:250, :189-203).
recover_destroy ==
    /\ UNCHANGED << dvars, rvars, kvars, svars, evars, pvars >>
    /\ cpc = "destroy"
    /\ n_recover' = n_recover + 1
    /\ n_destroy' = n_destroy + 1
    /\ \E net \in {"ok", "fail"} :
         LET res == destroy_session(session, net) IN
         /\ rec_step' = "destroy"
         /\ rec_res' = res
         /\ DestroyAtSolver(net)
         /\ IF res.ok
            THEN /\ session' = "none"
                 /\ cpc' = after_destroy_session
                 /\ UNCHANGED << cres, attempts, last_err, n_rec_fail >>
            ELSE /\ session' = session
                 /\ RecoverFailed(res)
    /\ fetch_env' = NoResponse /\ fetch_res' = NoResult
    /\ UNCHANGED << has_proxy, has_api, max_attempts, first_res, n_fetch,
                    n_fetch_fail, n_fetch_solution, n_rec_ok, n_restart, n_create >>

\* recover, second step: Proxy::restart when a proxy is configured
\* (client.rs:251-253, proxy.rs:113-118).
recover_restart ==
    /\ UNCHANGED << dvars, rvars, kvars, svars, evars, pvars >>
    /\ cpc = "restart"
    /\ n_restart' = n_restart + 1
    /\ \E res \in RestartOutcomes :
         /\ rec_step' = "restart"
         /\ rec_res' = res
         /\ IF res.ok
            THEN /\ cpc' = "create"
                 /\ UNCHANGED << cres, attempts, last_err, n_rec_fail >>
            ELSE RecoverFailed(res)
    /\ UNCHANGED << session, has_proxy, has_api, max_attempts, first_res, n_fetch,
                    n_fetch_fail, n_fetch_solution, n_recover, n_rec_ok,
                    n_destroy, n_create, live_held, live_lost, fetch_env, fetch_res >>

\* recover, last step: create_session (client.rs:254, :167-186).
recover_create ==
    /\ UNCHANGED << dvars, rvars, kvars, svars, evars, pvars >>
    /\ cpc = "create"
    /\ n_create' = n_create + 1
    /\ \E r \in Responses :
         LET res == create_session(r) IN
         /\ rec_step' = "create"
         /\ rec_res' = res
         /\ CreateAtSolver(r, res)
         /\ IF res.ok
            THEN /\ session' = "held"
                 /\ n_rec_ok' = n_rec_ok + 1
                 /\ cpc' = "fetch"
                 /\ UNCHANGED << cres, attempts, last_err, n_rec_fail >>
            ELSE /\ session' = session
                 /\ n_rec_ok' = n_rec_ok
                 /\ RecoverFailed(res)
    /\ UNCHANGED << has_proxy, has_api, max_attempts, first_res, n_fetch,
                    n_fetch_fail, n_fetch_solution, n_recover, n_destroy, n_restart,
                    fetch_env, fetch_res >>

\* The caller takes the page and is ready for its next request; on an error
\* every caller leaves with `?` or `break` (download.rs:68, :178-183).
CallerNextRequest ==
    /\ UNCHANGED << dvars, rvars, kvars, svars, evars, pvars >>
    /\ cpc = "returned"
    /\ cres.ok
    /\ cpc' = "ready"
    /\ first_res' = NoResult
    /\ last_err' = NoResult
    /\ n_fetch' = 0 /\ n_fetch_fail' = 0 /\ n_fetch_solution' = 0
    /\ n_recover' = 0 /\ n_rec_ok' = 0 /\ n_rec_fail' = 0
    /\ n_destroy' = 0 /\ n_restart' = 0 /\ n_create' = 0
    /\ rec_step' = "none" /\ rec_res' = NoResult
    /\ fetch_env' = NoResponse /\ fetch_res' = NoResult
    /\ UNCHANGED << session, has_proxy, has_api, max_attempts, attempts, cres,
                    live_held, live_lost >>

\* The caller's destroy_session on its way out (download.rs:71, :191).
CallerDestroySession ==
    /\ UNCHANGED << dvars, rvars, kvars, svars, evars, pvars >>
    /\ cpc = "ready" \/ (cpc = "returned" /\ ~cres.ok)
    /\ \E net \in {"ok", "fail"} :
         LET res == destroy_session(session, net) IN
         /\ session' = IF res.ok THEN "none" ELSE session
         /\ cres' = res
         /\ DestroyAtSolver(net)
    /\ cpc' = "closed"
    /\ UNCHANGED << has_proxy, has_api, max_attempts, attempts, hvars >>

ClientNext ==
    \/ CallerCreateSession
    \/ n_attempts_call
    \/ n_attempts_fetch
    \/ recover_destroy
    \/ recover_restart
    \/ recover_create
    \/ CallerNextRequest
    \/ CallerDestroySession

ClientSpec == ClientInit /\ [][ClientNext]_vars

\* ------------------------------------------------- the download command

\* The client's variables while only the download command is exercised.
ClientIdle ==
    /\ session = "none"
    /\ has_proxy = FALSE
    /\ has_api = FALSE
    /\ max_attempts = 1
    /\ attempts = 0
    /\ cpc = "none"
    /\ cres = NoResult
    /\ live_held = FALSE
    /\ live_lost = 0
    /\ NoHistory

\* execute up to the spawn of the workers (download.rs:25-47, :76-99), or up
\* to the call of single_thread, over every backlog, every staging directory
\* left by an earlier run and every failure plan of the solver.
DownloadInit ==
    /\ ClientIdle
    /\ RestartIdle
    /\ CacheIdle
    /\ SchedIdle
    /\ RunIdle
    /\ ProxyIdle
    /\ mode \in {"single", "multi"}
    /\ nworkers \in 1..MaxWorkers
    /\ (mode = "single") <=> (nworkers = 1)
    /\ total \in 0..MaxUrls
    /\ urls = Backlog(total)
    /\ lock = {}
    /\ staging \in SUBSET { url_to_filename(i, Url(i)) : i \in 0..(total - 1) }
    /\ fails \in [ 0..(total - 1) -> (0..MaxFails) \cup {Poisoned} ]
    \* no plan is drawn for a file that is there: download_chapter never fetches it
    /\ \A i \in 0..(total - 1) : url_to_filename(i, Url(i)) \in staging => fails[i] = 0
    /\ wpc = [ w \in 1..nworkers |-> "create" ]
    /\ task = [ w \in 1..nworkers |-> NoTask ]
    /\ wsession = [ w \in 1..nworkers |-> "none" ]
    /\ wcreated = [ w \in 1..nworkers |-> FALSE ]
    /\ n_wdestroy = [ w \in 1..nworkers |-> 0 ]
    /\ delivered = {}
    /\ failed = {}
    /\ fetched = {}
    /\ sidx = 0
    /\ sres = NoResult
    /\ joined = 0
    /\ opc = "running"
    /\ result = NoResult

\* What a failing download_chapter returns: the budget of n_attempts ran out,
\* the parser rejected the page, a fatal solver error, the file write failed.
DownloadErrors ==
    { Error("Solution", FALSE, "Error solving the challenge. Timeout"),
      Error("Html", FALSE, "invalid chapter page"),
      Error("Proxy", TRUE, "net::ERR_TUNNEL_CONNECTION_FAILED"),
      Error("Io", TRUE, "No space left on device") }

\* download.rs:134, the mutant first: the file in staging is not looked at.
staging_ignored(it) == FALSE

\* download.rs:134: `path.is_file()`
is_file(it) == url_to_filename(it[1], it[2]) \in staging

\* download.rs:124-153: whether download_chapter returns Ok for the item.
download_chapter_ok(it) == is_file(it) \/ fails[it[1]] = 0

\* download.rs:148-149: the file download_chapter writes on a fresh download.
staging_after(it) ==
    IF download_chapter_ok(it) THEN staging \cup { url_to_filename(it[1], it[2]) }
    ELSE staging

\* download.rs:134-146: get_chapter is called unless the item's file is there.
fetched_after(it) ==
    IF is_file(it) THEN fetched ELSE fetched \cup { it[1] }

\* The solver's plan after one more call of download_chapter for the item.
fails_after(it) ==
    IF is_file(it) \/ fails[it[1]] \in {0, Poisoned} THEN fails
    ELSE [ fails EXCEPT ![it[1]] = @ - 1 ]

push_back(q, x) == Append(q, x)

drop_item(q, x) == q

\* VecDeque::push_front (download.rs:181)
push_front(q, x) == << x >> \o q

stops_after_first_item == "destroy"

\* download.rs:177: `Ok(_) => {}`, the loop goes on to the next pop.
after_download_ok == "pop"

create_failure_pops == "pop"

create_failure_skips_destroy == "terminated"

\* download.rs:189-191: a worker whose create_session failed falls through to
\* destroy_session.
after_create_failure == "destroy"

awaits_first_only(j, k) == j >= 1

\* download.rs:108-113: every future has been awaited.
all_joined(j, k) == j = k

at_most_one_left(q) == Len(q) <= 1

\* download.rs:117-118: `match urls.len() { 0 => Ok(()), ...`
queue_drained(q) == Len(q) = 0

\* download.rs:167-168, :189: the worker's create_session.
do_work_create(w) ==
    /\ mode = "multi"
    /\ wpc[w] = "create"
    /\ \E res \in CreateSessionResults :
         IF res.ok
         THEN /\ wsession' = [ wsession EXCEPT ![w] = "held" ]
              /\ wcreated' = [ wcreated EXCEPT ![w] = TRUE ]
              /\ wpc' = [ wpc EXCEPT ![w] = "pop" ]
         ELSE /\ wpc' = [ wpc EXCEPT ![w] = after_create_failure ]
              /\ UNCHANGED << wsession, wcreated >>
    /\ UNCHANGED << cvars, rvars, kvars, svars, evars, pvars, fetched, lock, mode, nworkers, total, urls, staging, fails, task,
                    n_wdestroy, delivered, failed, sidx, sres, joined, opc, result >>

\* tokio's Mutex behind download.rs:170 and :180: `lock().await` completes
\* only while no guard is outstanding.
lock_granted(l) == l = {}

\* download.rs:172 and :182-183: the guard goes out of scope at the end of
\* the block around pop_front, and at `break` after push_front.
guard_kept(l, w) == l

guard_dropped(l, w) == l \ {w}

\* download.rs:170, :180: `self.urls.as_ref().lock().await`
do_work_lock(w) ==
    /\ mode = "multi"
    /\ wpc[w] \in {"pop", "requeue"}
    /\ w \notin lock
    /\ lock_granted(lock)
    /\ lock' = lock \cup {w}
    /\ UNCHANGED << cvars, rvars, kvars, svars, evars, pvars, fetched, mode, nworkers, total, urls, staging, fails, wpc, task,
                    wsession, wcreated, n_wdestroy, delivered, failed, sidx, sres,
                    joined, opc, result >>

\* download.rs:169-173, :186: pop_front under the lock.
do_work_pop(w) ==
    /\ mode = "multi"
    /\ wpc[w] = "pop"
    /\ w \in lock
    /\ lock' = guard_dropped(lock, w)
    /\ IF urls = << >>
       THEN /\ wpc' = [ wpc EXCEPT ![w] = "destroy" ]
            /\ UNCHANGED << urls, task >>
       ELSE /\ task' = [ task EXCEPT ![w] = Head(urls) ]
            /\ urls' = Tail(urls)
            /\ wpc' = [ wpc EXCEPT ![w] = "download" ]
    /\ UNCHANGED << cvars, rvars, kvars, svars, evars, pvars, fetched, mode, nworkers, total, staging, fails, wsession, wcreated,
                    n_wdestroy, delivered, failed, sidx, sres, joined, opc, result >>

\* download.rs:174-179: download_chapter for the popped item.
do_work_download(w) ==
    /\ mode = "multi"
    /\ wpc[w] = "download"
    /\ staging' = staging_after(task[w])
    /\ fails' = fails_after(task[w])
    /\ fetched' = fetched_after(task[w])
    /\ IF download_chapter_ok(task[w])
       THEN /\ delivered' = delivered \cup { task[w] }
            /\ task' = [ task EXCEPT ![w] = NoTask ]
            /\ wpc' = [ wpc EXCEPT ![w] = after_download_ok ]
            /\ UNCHANGED << wsession, failed >>
       ELSE /\ wpc' = [ wpc EXCEPT ![w] = "requeue" ]
            /\ failed' = failed \cup { task[w][1] }
            /\ \E s \in {wsession[w], "none"} : wsession' = [ wsession EXCEPT ![w] = s ]
            /\ UNCHANGED << delivered, task >>
    /\ UNCHANGED << cvars, rvars, kvars, svars, evars, pvars, lock, mode, nworkers, total, urls, wcreated, n_wdestroy,
                    sidx, sres, joined, opc, result >>

\* download.rs:178-183: push_front under the lock, then break.
do_work_requeue(w) ==
    /\ mode = "multi"
    /\ wpc[w] = "requeue"
    /\ w \in lock
    /\ lock' = guard_dropped(lock, w)
    /\ urls' = push_front(urls, task[w])
    /\ task' = [ task EXCEPT ![w] = NoTask ]
    /\ wpc' = [ wpc EXCEPT ![w] = "destroy" ]
    /\ UNCHANGED << cvars, rvars, kvars, svars, evars, pvars, fetched, mode, nworkers, total, staging, fails, wsession, wcreated,
                    n_wdestroy, delivered, failed, sidx, sres, joined, opc, result >>

\* download.rs:191: `let _ = self.client.destroy_session().await;`
do_work_destroy(w) ==
    /\ mode = "multi"
    /\ wpc[w] = "destroy"
    /\ \E net \in {"ok", "fail"} :
         wsession' = [ wsession EXCEPT ![w] =
                         IF destroy_session(wsession[w], net).ok THEN "none" ELSE @ ]
    /\ n_wdestroy' = [ n_wdestroy EXCEPT ![w] = @ + 1 ]
    /\ wpc' = [ wpc EXCEPT ![w] = "terminated" ]
    /\ UNCHANGED << cvars, rvars, kvars, svars, evars, pvars, fetched, lock, mode, nworkers, total, urls, staging, fails, task, wcreated,
                    delivered, failed, sidx, sres, joined, opc, result >>

\* download.rs:108-113: the next future is awaited, in spawn order.
multi_thread_join ==
    /\ mode = "multi"
    /\ opc = "running"
    /\ joined < nworkers
    /\ wpc[joined + 1] = "terminated"
    /\ joined' = joined + 1
    /\ UNCHANGED << cvars, rvars, kvars, svars, evars, pvars, fetched, lock, mode, nworkers, total, urls, staging, fails, wpc, task,
                    wsession, wcreated, n_wdestroy, delivered, failed, sidx, sres,
                    opc, result >>

\* download.rs:115-120: the queue is inspected.
multi_thread_check ==
    /\ mode = "multi"
    /\ opc = "running"
    /\ all_joined(joined, nworkers)
    /\ lock_granted(lock)
    /\ result' = IF queue_drained(urls) THEN Ok("()")
                 ELSE Error("Solver", TRUE, "not all URLs were downloaded successfully")
    /\ opc' = "done"
    /\ UNCHANGED << cvars, rvars, kvars, svars, evars, pvars, fetched, lock, mode, nworkers, total, urls, staging, fails, wpc, task,
                    wsession, wcreated, n_wdestroy, delivered, failed, sidx, sres,
                    joined >>

\* download.rs:54: `client.create_session().await?`
single_thread_create ==
    /\ mode = "single"
    /\ wpc[1] = "create"
    /\ \E res \in CreateSessionResults :
         IF res.ok
         THEN /\ wsession' = [ wsession EXCEPT ![1] = "held" ]
              /\ wcreated' = [ wcreated EXCEPT ![1] = TRUE ]
              /\ wpc' = [ wpc EXCEPT ![1] = "setup" ]
              /\ UNCHANGED << opc, result >>
         ELSE /\ wpc' = [ wpc EXCEPT ![1] = "terminated" ]
              /\ opc' = "done"
              /\ result' = res
              /\ UNCHANGED << wsession, wcreated >>
    /\ UNCHANGED << cvars, rvars, kvars, svars, evars, pvars, fetched, lock, mode, nworkers, total, urls, staging, fails, task,
                    n_wdestroy, delivered, failed, sidx, sres, joined >>

\* download.rs:56-63: the staging directory and urlcache.txt.
single_thread_setup ==
    /\ mode = "single"
    /\ wpc[1] = "setup"
    /\ \E io \in {"ok", "fail"} :
         IF io = "ok"
         THEN /\ wpc' = [ wpc EXCEPT ![1] = "loop" ]
              /\ UNCHANGED sres
         ELSE /\ wpc' = [ wpc EXCEPT ![1] = "destroy" ]
              /\ sres' = Error("Io", TRUE, "No such file or directory")
    /\ UNCHANGED << cvars, rvars, kvars, svars, evars, pvars, fetched, lock, mode, nworkers, total, urls, staging, fails, task, wsession,
                    wcreated, n_wdestroy, delivered, failed, sidx, joined, opc, result >>

\* download.rs:65-68: one turn of the loop over the URL list.
single_thread_loop ==
    /\ mode = "single"
    /\ wpc[1] = "loop"
    /\ IF sidx = total
       THEN /\ sres' = Ok("()")
            /\ wpc' = [ wpc EXCEPT ![1] = "destroy" ]
            /\ UNCHANGED << staging, fails, fetched, delivered, failed, sidx, wsession >>
       ELSE /\ staging' = staging_after(urls[sidx + 1])
            /\ fails' = fails_after(urls[sidx + 1])
            /\ fetched' = fetched_after(urls[sidx + 1])
            /\ IF download_chapter_ok(urls[sidx + 1])
               THEN /\ delivered' = delivered \cup { urls[sidx + 1] }
                    /\ sidx' = sidx + 1
                    /\ UNCHANGED << sres, wpc, wsession, failed >>
               ELSE /\ \E e \in DownloadErrors : sres' = e
                    /\ failed' = failed \cup { sidx }
                    /\ \E s \in {wsession[1], "none"} :
                         wsession' = [ wsession EXCEPT ![1] = s ]
                    /\ wpc' = [ wpc EXCEPT ![1] = "destroy" ]
                    /\ UNCHANGED << delivered, sidx >>
    /\ UNCHANGED << cvars, rvars, kvars, svars, evars, pvars, lock, mode, nworkers, total, urls, task, wcreated, n_wdestroy,
                    joined, opc, result >>

\* download.rs:71-72: `client.destroy_session().await?; res`
single_thread_destroy ==
    /\ mode = "single"
    /\ wpc[1] = "destroy"
    /\ \E net \in {"ok", "fail"} :
         LET res == destroy_session(wsession[1], net) IN
         /\ wsession' = [ wsession EXCEPT ![1] = IF res.ok THEN "none" ELSE @ ]
         /\ result' = IF res.ok THEN sres ELSE res
    /\ n_wdestroy' = [ n_wdestroy EXCEPT ![1] = @ + 1 ]
    /\ wpc' = [ wpc EXCEPT ![1] = "terminated" ]
    /\ opc' = "done"
    /\ UNCHANGED << cvars, rvars, kvars, svars, evars, pvars, fetched, lock, mode, nworkers, total, urls, staging, fails, task, wcreated,
                    delivered, failed, sidx, sres, joined >>

\* One step of worker w.
do_work(w) ==
    \/ do_work_create(w)
    \/ do_work_lock(w)
    \/ do_work_pop(w)
    \/ do_work_download(w)
    \/ do_work_requeue(w)
    \/ do_work_destroy(w)

multi_thread == multi_thread_join \/ multi_thread_check

single_thread ==
    \/ single_thread_create
    \/ single_thread_setup
    \/ single_thread_loop
    \/ single_thread_destroy

DownloadNext ==
    \/ \E w \in Workers : do_work_create(w)
    \/ \E w \in Workers : do_work_lock(w)
    \/ \E w \in Workers : do_work_pop(w)
    \/ \E w \in Workers : do_work_download(w)
    \/ \E w \in Workers : do_work_requeue(w)
    \/ \E w \in Workers : do_work_destroy(w)
    \/ multi_thread_join
    \/ multi_thread_check
    \/ single_thread_create
    \/ single_thread_setup
    \/ single_thread_loop
    \/ single_thread_destroy

DownloadSpec == DownloadInit /\ [][DownloadNext]_vars

\* The runtime keeps polling every task that can run: each spawned worker, the
\* joining command, the single-threaded run.
DownloadFairSpec ==
    /\ DownloadSpec
    /\ \A w \in 1..MaxWorkers : WF_vars(w \in Workers /\ do_work(w))
    /\ WF_vars(multi_thread)
    /\ WF_vars(single_thread)

\* ------------------------------------------- the pool with a third worker

\* The pool in which two workers can have requeued while another still pops.
RequeueWorkers == 3

\* multi_thread up to the spawn of RequeueWorkers workers (download.rs:76-105),
\* on an empty staging directory, each URL either served or failing for good.
RequeueInit ==
    /\ ClientIdle
    /\ RestartIdle
    /\ CacheIdle
    /\ SchedIdle
    /\ RunIdle
    /\ ProxyIdle
    /\ mode = "multi"
    /\ nworkers = RequeueWorkers
    /\ total \in 0..MaxUrls
    /\ urls = Backlog(total)
    /\ lock = {}
    /\ staging = {}
    /\ fails \in [ 0..(total - 1) -> {0, Poisoned} ]
    /\ wpc = [ w \in 1..nworkers |-> "create" ]
    /\ task = [ w \in 1..nworkers |-> NoTask ]
    /\ wsession = [ w \in 1..nworkers |-> "none" ]
    /\ wcreated = [ w \in 1..nworkers |-> FALSE ]
    /\ n_wdestroy = [ w \in 1..nworkers |-> 0 ]
    /\ delivered = {}
    /\ failed = {}
    /\ fetched = {}
    /\ sidx = 0
    /\ sres = NoResult
    /\ joined = 0
    /\ opc = "running"
    /\ result = NoResult

\* The steps of the multi-worker run.
MultiNext ==
    \/ \E w \in Workers : do_work_create(w)
    \/ \E w \in Workers : do_work_lock(w)
    \/ \E w \in Workers : do_work_pop(w)
    \/ \E w \in Workers : do_work_download(w)
    \/ \E w \in Workers : do_work_requeue(w)
    \/ \E w \in Workers : do_work_destroy(w)
    \/ multi_thread_join
    \/ multi_thread_check

RequeueSpec == RequeueInit /\ [][MultiNext]_vars

\* ------------------------------------------------------------ Api::restart

\* Proxy::restart with a control API is called (proxy.rs:113-118), the control
\* server being in any state.
RestartInit ==
    /\ ClientIdle
    /\ DownloadIdle
    /\ CacheIdle
    /\ SchedIdle
    /\ RunIdle
    /\ ProxyIdle
    /\ rpc = "put_stopped"
    /\ seconds \in 1..MaxSeconds
    /\ elapsed = 0
    /\ ctl_state \in {"running", "stopped", "unknown"}
    /\ ctl_ip \in BOOLEAN
    /\ ctl_ip => ctl_state = "running"
    /\ ctl_pending = "none"
    /\ trace = << >>
    /\ polls = 0
    /\ rres = NoResult

timeout_ignored(message) == Ok("restarted")

\* api.rs:124, :142: the wait ran out of its window.
timeout_error(message) == Error("Proxy", FALSE, message)

window_doubled(e, s) == e >= s + s

\* api.rs:110, :130: `timeout(Duration::from_secs(seconds), ...)`, looked at
\* after the loop was polled; one turn of the loop sleeps a second.
window_elapsed(e, s) == e >= s

put_state_propagated(net) ==
    IF net = "fail" THEN Error("Solver", TRUE, "error sending request") ELSE Ok("put")

\* api.rs:97: `let _ = self.put_state("stopped").await;` whatever put_state
\* returned is dropped.
put_state_dropped(net) == Ok("put")

\* api.rs:97: `let _ = self.put_state("stopped").await;` the request may be
\* lost on its way and its result is dropped.
restart_put_stopped ==
    /\ rpc = "put_stopped"
    /\ \E net \in {"ok", "fail"} :
         /\ ctl_pending' = IF net = "ok" THEN "stopped" ELSE ctl_pending
         /\ IF put_state_dropped(net).ok
            THEN rpc' = "wait_stopped" /\ rres' = rres
            ELSE rpc' = "returned" /\ rres' = put_state_dropped(net)
    /\ trace' = Append(trace, "put stopped")
    /\ polls' = 0
    /\ elapsed' = 0
    /\ UNCHANGED << cvars, dvars, kvars, svars, evars, pvars, seconds, ctl_state, ctl_ip >>

\* api.rs:109-126: one turn of wait_for_status' loop, a status poll; on the
\* status waited for restart goes on to `next`.
wait_for_status(status, seen, next) ==
    /\ polls' = polls + 1
    /\ \E got \in {ctl_state, "error"} :
         IF got = status
         THEN /\ trace' = Append(trace, seen)
              /\ elapsed' = 0
              /\ rpc' = next
              /\ UNCHANGED rres
         ELSE /\ elapsed' = elapsed + 1
              /\ IF window_elapsed(elapsed', seconds)
                 THEN /\ rres' = timeout_error("waiting for proxy timed out")
                      /\ rpc' = "returned"
                 ELSE UNCHANGED << rres, rpc >>
              /\ UNCHANGED trace
    /\ UNCHANGED << cvars, dvars, kvars, svars, evars, pvars, seconds, ctl_state, ctl_ip, ctl_pending >>

\* api.rs:99: `self.wait_for_status(ProxyStatus::Stopped, seconds).await?`
restart_wait_stopped ==
    /\ rpc = "wait_stopped"
    /\ wait_for_status("stopped", "saw stopped", "wait_running")

\* api.rs:101: `self.wait_for_status(ProxyStatus::Running, seconds).await?`
restart_wait_running ==
    /\ rpc = "wait_running"
    /\ wait_for_status("running", "saw running", "wait_ip")

\* api.rs:103-105, :129-144: one turn of wait_for_ip's loop; with an IP
\* restart returns Ok.
restart_wait_ip ==
    /\ rpc = "wait_ip"
    /\ \E got \in {ctl_ip, FALSE} :
         IF got
         THEN /\ trace' = Append(trace, "saw ip")
              /\ rres' = Ok("restarted")
              /\ rpc' = "returned"
              /\ UNCHANGED elapsed
         ELSE /\ elapsed' = elapsed + 1
              /\ IF window_elapsed(elapsed', seconds)
                 THEN /\ rres' = timeout_error("waiting for IP timed out")
                      /\ rpc' = "returned"
                 ELSE UNCHANGED << rres, rpc >>
              /\ UNCHANGED trace
    /\ UNCHANGED << cvars, dvars, kvars, svars, evars, pvars, seconds, ctl_state, ctl_ip, ctl_pending, polls >>

\* The control server carries out the stop it was asked for.
ControllerStops ==
    /\ rpc \in {"wait_stopped", "wait_running", "wait_ip"}
    /\ ctl_pending = "stopped"
    /\ ctl_pending' = "none"
    /\ ctl_state' = "stopped"
    /\ ctl_ip' = FALSE
    /\ UNCHANGED << cvars, dvars, kvars, svars, evars, pvars, rpc, seconds, elapsed, trace, polls, rres >>

\* The control server brings the VPN up without being asked.
ControllerStarts ==
    /\ rpc \in {"wait_stopped", "wait_running", "wait_ip"}
    /\ ctl_state \in {"stopped", "unknown"}
    /\ ctl_pending = "none"
    /\ ctl_state' = "running"
    /\ UNCHANGED << cvars, dvars, kvars, svars, evars, pvars, rpc, seconds, elapsed, ctl_ip, ctl_pending, trace,
                    polls, rres >>

\* The running VPN learns its public IP.
ControllerGetsIp ==
    /\ rpc \in {"wait_stopped", "wait_running", "wait_ip"}
    /\ ctl_state = "running"
    /\ ~ctl_ip
    /\ ctl_ip' = TRUE
    /\ UNCHANGED << cvars, dvars, kvars, svars, evars, pvars, rpc, seconds, elapsed, ctl_state, ctl_pending, trace,
                    polls, rres >>

RestartNext ==
    \/ restart_put_stopped
    \/ restart_wait_stopped
    \/ restart_wait_running
    \/ restart_wait_ip
    \/ ControllerStops
    \/ ControllerStarts
    \/ ControllerGetsIp

RestartSpec == RestartInit /\ [][RestartNext]_vars

\* ------------------------------- recover with the proxy's control API

\* Client::new_internal with a proxy that has a control API.
ApiRecoverInit ==
    /\ ClientInit
    /\ has_api

\* client.rs:251-253, proxy.rs:113-118: recover calls Proxy::restart, which
\* calls Api::restart; the control server is in any state, the window is
\* recover's `seconds` (client.rs:287) on the model's scale.
recover_restart_call ==
    /\ cpc = "restart"
    /\ has_api
    /\ rpc = "none"
    /\ rpc' = "put_stopped"
    /\ seconds' = MaxSeconds
    /\ elapsed' = 0
    /\ ctl_state' \in {"running", "stopped", "unknown"}
    /\ ctl_ip' \in BOOLEAN
    /\ ctl_ip' => ctl_state' = "running"
    /\ ctl_pending' = "none"
    /\ trace' = << >>
    /\ polls' = 0
    /\ rres' = NoResult
    /\ UNCHANGED << cvars, dvars, kvars, svars, evars, pvars >>

\* client.rs:252, `proxy.restart(seconds)?`, and what n_attempts does with
\* recover's result (client.rs:287-301).
recover_restart_done ==
    /\ cpc = "restart"
    /\ rpc = "returned"
    /\ n_restart' = n_restart + 1
    /\ rec_step' = "restart"
    /\ rec_res' = rres
    /\ IF rres.ok
       THEN /\ cpc' = "create"
            /\ UNCHANGED << cres, attempts, last_err, n_rec_fail >>
       ELSE RecoverFailed(rres)
    /\ rpc' = "none"
    /\ seconds' = 0
    /\ elapsed' = 0
    /\ ctl_state' = "none"
    /\ ctl_ip' = FALSE
    /\ ctl_pending' = "none"
    /\ trace' = << >>
    /\ polls' = 0
    /\ rres' = NoResult
    /\ UNCHANGED << session, has_proxy, has_api, max_attempts, first_res, n_fetch,
                    n_fetch_fail, n_fetch_solution, n_recover, n_rec_ok,
                    n_destroy, n_create, live_held, live_lost, fetch_env, fetch_res >>
    /\ UNCHANGED << dvars, kvars, svars, evars, pvars >>

ApiRecoverNext ==
    \/ CallerCreateSession
    \/ n_attempts_call
    \/ n_attempts_fetch
    \/ recover_destroy
    \/ recover_restart_call
    \/ restart_put_stopped
    \/ restart_wait_stopped
    \/ restart_wait_running
    \/ restart_wait_ip
    \/ ControllerStops
    \/ ControllerStarts
    \/ ControllerGetsIp
    \/ recover_restart_done
    \/ recover_create
    \/ CallerDestroySession

ApiRecoverSpec == ApiRecoverInit /\ [][ApiRecoverNext]_vars

\* ------------------------------------------------------ the response cache

\* How many calendar days a run can see.
MaxDays == 2

\* Request URLs, as the characters url_to_path works on.  U1 and U2 differ
\* and share one file name; U3 has a name of its own.
U1 == << "s", ":", "/", "/", "a", "/", "b" >>

U2 == << "s", ":", "/", "/", "a", "_", "b" >>

U3 == << "s", ":", "/", "/", "c" >>

CacheUrls == { U1, U2, U3 }

\* Bodies the solver returns: Rust Strings, valid UTF-8.
Bodies == { "A", "B" }

\* A byte string that is not valid UTF-8.
NotUtf8 == "0xFF"

\* What `data: &[u8]` of Cache::insert ranges over.
Payloads == Bodies \cup { NotUtf8 }

Digits == << "1", "2", "3", "4", "5", "6", "7", "8", "9" >>

\* cache.rs:22: NaiveDate::to_string, one fixed-width text per day.
date_naive_to_string(day) == << "D", Digits[day] >>

\* str::replace(":", "")
replace_colon(s) == SelectSeq(s, LAMBDA c : c # ":")

\* str::replace("//", "/"): matches are taken left to right and do not overlap.
RECURSIVE replace_double_slash(_)
replace_double_slash(s) ==
    IF Len(s) < 2 THEN s
    ELSE IF s[1] = "/" /\ s[2] = "/"
         THEN << "/" >> \o replace_double_slash(SubSeq(s, 3, Len(s)))
         ELSE << s[1] >> \o replace_double_slash(Tail(s))

\* str::replace("/", "_")
RECURSIVE replace_slash(_)
replace_slash(s) ==
    IF s = << >> THEN << >>
    ELSE << (IF s[1] = "/" THEN "_" ELSE s[1]) >> \o replace_slash(Tail(s))

\* cache.rs:52-62: the file name for a URL under a prefix.
url_to_path(prefix, url) ==
    prefix \o << "_" >> \o replace_slash(replace_double_slash(replace_colon(url)))

\* str::starts_with
starts_with(name, prefix) ==
    /\ Len(name) >= Len(prefix)
    /\ SubSeq(name, 1, Len(prefix)) = prefix

\* The names of the files in a directory.
Names(dir) == { f.name : f \in dir }

\* Path::is_file
path_is_file(dir, name) == name \in Names(dir)

\* The file of that name.
FileAt(dir, name) == CHOOSE f \in dir : f.name = name

\* cache.rs:36-50, the mutants first: a clean that removes nothing, one that
\* removes every entry.
clean_keeps_all(dir, prefix) == dir

clean_removes_all(dir, prefix) == {}

\* cache.rs:36-50: every entry whose name does not start with the prefix is removed.
clean(dir, prefix) == { f \in dir : starts_with(f.name, prefix) }

\* cache.rs:45 fails at some entry: entries removed before it are gone, it
\* and at least the entries not yet visited stay.
clean_interrupted(dir, prefix) ==
    { d \in SUBSET dir : clean(dir, prefix) \subseteq d /\ d # clean(dir, prefix) }

\* cache.rs:77-78, the mutant first: nothing is written.
write_skipped(dir, name, data, day) == dir

\* cache.rs:77-78: File::create truncates or creates the file, write_all fills it.
write_all(dir, name, data, day) ==
    { f \in dir : f.name # name } \cup { [name |-> name, body |-> data, day |-> day] }

\* std::str::from_utf8 inside fs::read_to_string
is_utf8(data) == data # NotUtf8

\* cache.rs:65-72
get(dir, prefix, url) ==
    LET path == url_to_path(prefix, url) IN
    IF path_is_file(dir, path)
    THEN IF is_utf8(FileAt(dir, path).body)
         THEN Found(FileAt(dir, path).body)
         ELSE GetFailed(Error("Io", TRUE, "stream did not contain valid UTF-8"))
    ELSE NotFound

\* cache.rs:77-78: the file at the path holds what this insert wrote, whatever
\* was there before.
origin_after(o, name, url) == { q \in o : q[1] # name } \cup { << name, url >> }

\* cache.rs:36-50: a removed file takes its history with it.
origin_of(o, dir) == { q \in o : q[1] \in Names(dir) }

\* The prefix of the Cache object, as text.
Prefix == date_naive_to_string(cache_prefix)

\* Cache::new, cache.rs:19-27: the prefix is computed once, here; clean runs
\* under it.  With a failed removal no Cache is returned.
Cache_new ==
    /\ \E remove_failed \in BOOLEAN :
         IF remove_failed
         THEN /\ \E d \in clean_interrupted(cache_dir, date_naive_to_string(today)) :
                   cache_dir' = d
              /\ cache_prefix' = cache_prefix
              /\ last_op' = [ NoOp EXCEPT !.op = "new", !.day = today,
                                          !.dir_before = cache_dir,
                                          !.res = Error("Io", TRUE, "remove_file") ]
         ELSE /\ cache_dir' = clean(cache_dir, date_naive_to_string(today))
              /\ cache_prefix' = today
              /\ last_op' = [ NoOp EXCEPT !.op = "new", !.day = today,
                                          !.dir_before = cache_dir, !.res = Ok("()") ]
    /\ fresh' = NoFresh
    /\ gets_since' = 0
    /\ origin' = origin_of(origin, cache_dir')
    /\ UNCHANGED << today, cvars, dvars, rvars, svars, evars, pvars >>

\* Midnight passes: Local::now().date_naive() is the next day from now on.
DayChanges ==
    /\ today < MaxDays
    /\ today' = today + 1
    /\ UNCHANGED << cache_prefix, cache_dir, last_op, fresh, gets_since, origin,
                    cvars, dvars, rvars, svars, evars, pvars >>

\* How an insert ends: both calls succeed, File::create fails, or write_all
\* fails after the file was created empty.
InsertOutcomes == { "ok", "create failed", "write failed" }

\* cache.rs:75-80 on a directory.
insert(dir, prefix, url, data, day, outcome) ==
    LET path == url_to_path(prefix, url) IN
    IF outcome = "ok" THEN write_all(dir, path, data, day)
    ELSE IF outcome = "write failed" THEN write_all(dir, path, "", day)
    ELSE dir

insert_result(outcome) ==
    IF outcome = "ok" THEN Ok("()")
    ELSE IF outcome = "write failed" THEN Error("Io", TRUE, "write_all")
    ELSE Error("Io", TRUE, "create")

\* Cache::insert, called on the Cache object.
Cache_insert ==
    /\ cache_prefix # 0
    /\ \E url \in CacheUrls, data \in Payloads, outcome \in InsertOutcomes :
         /\ cache_dir' = insert(cache_dir, Prefix, url, data, today, outcome)
         /\ last_op' = [ NoOp EXCEPT !.op = "insert", !.url = url, !.data = data,
                                     !.day = today, !.dir_before = cache_dir,
                                     !.res = insert_result(outcome) ]
         /\ fresh' = IF outcome = "ok" THEN [ url |-> url, data |-> data ] ELSE NoFresh
         /\ origin' = IF outcome = "create failed" THEN origin
                       ELSE origin_after(origin, url_to_path(Prefix, url), url)
    /\ gets_since' = 0
    /\ UNCHANGED << today, cache_prefix, cvars, dvars, rvars, svars, evars, pvars >>

\* Cache::get, called on the Cache object.
Cache_get ==
    /\ cache_prefix # 0
    /\ \E url \in CacheUrls :
         /\ last_op' = [ NoOp EXCEPT !.op = "get", !.url = url, !.day = today,
                                     !.dir_before = cache_dir,
                                     !.got = get(cache_dir, Prefix, url) ]
         /\ IF fresh # NoFresh /\ fresh.url = url
            THEN /\ fresh' = fresh
                 /\ gets_since' = IF gets_since < 2 THEN gets_since + 1 ELSE 2
            ELSE /\ fresh' = NoFresh
                 /\ gets_since' = 0
    /\ UNCHANGED << today, cache_prefix, cache_dir, origin, cvars, dvars, rvars, svars, evars, pvars >>

CacheInit ==
    /\ ClientIdle
    /\ DownloadIdle
    /\ RestartIdle
    /\ CacheIdle
    /\ SchedIdle
    /\ RunIdle
    /\ ProxyIdle

CacheNext ==
    \/ Cache_new
    \/ DayChanges
    \/ Cache_insert
    \/ Cache_get

\* The Cache as a library: New, Insert and Get in any order, over midnight.
CacheSpec == CacheInit /\ [][CacheNext]_vars

\* ------------------------------------------- Client::_get over the cache

\* client.rs:226-231, the mutant first: the cached body is not used.
cache_bypassed(c) == FALSE

\* client.rs:226-231: `match res { Some(res) => Ok(res), None => ... }`
is_cached(c) == c.some

\* The errors n_attempts returns: what parse_solution_error makes of the
\* solver's messages.
NAttemptsErrors == { parse_solution_error(m) : m \in Messages }

\* client.rs:233: what a call of n_attempts(url, .., 5) leaves behind, as
\* ClientSpec shows it.  It sends at least one solver request; a first fetch
\* that succeeds or fails for good leaves the session alone; after a recover
\* the session is a new one, or none.  Two stands for two or more requests,
\* one for one or more recovers.
n_attempts_outcomes(s) ==
    { o \in [ res : { Ok(b) : b \in Bodies } \cup NAttemptsErrors,
              requests : 1..2, recoveries : 0..1, session : {"held", "none"} ] :
        /\ (o.recoveries = 0) => (o.requests = 1 /\ o.session = s)
        /\ (o.recoveries = 1 /\ o.res.ok) => (o.requests = 2 /\ o.session = "held") }

\* Config::build_client and create_session have run: a client that holds
\* a session and has no Cache yet.
GetInit ==
    /\ session = "held"
    /\ has_proxy = FALSE
    /\ has_api = FALSE
    /\ max_attempts = 5
    /\ attempts = 0
    /\ cpc = "ready"
    /\ cres = NoResult
    /\ live_held = TRUE
    /\ live_lost = 0
    /\ NoHistory
    /\ DownloadIdle
    /\ RestartIdle
    /\ CacheIdle
    /\ SchedIdle
    /\ RunIdle
    /\ ProxyIdle

\* Client::_get with a cache, client.rs:219-246.
Client_get ==
    /\ cache_prefix # 0
    /\ cpc = "ready"
    /\ \E url \in CacheUrls :
         LET c  == get(cache_dir, Prefix, url)
             op == [ NoOp EXCEPT !.op = "_get", !.url = url, !.day = today,
                                 !.dir_before = cache_dir, !.session_before = session,
                                 !.got = c ]
         IN  IF ~c.ok
             THEN /\ cres' = c.error
                  /\ last_op' = [ op EXCEPT !.res = c.error ]
                  /\ UNCHANGED << session, cache_dir, origin >>
             ELSE IF is_cached(c)
             THEN /\ cres' = Ok(c.body)
                  /\ last_op' = [ op EXCEPT !.res = Ok(c.body) ]
                  /\ UNCHANGED << session, cache_dir, origin >>
             ELSE \E o \in n_attempts_outcomes(session), w \in InsertOutcomes :
                  /\ session' = o.session
                  /\ IF o.res.ok
                     THEN /\ cache_dir' = insert(cache_dir, Prefix, url, o.res.message, today, w)
                          /\ cres' = IF w = "ok" THEN o.res ELSE insert_result(w)
                          /\ origin' = IF w = "create failed" THEN origin
                                        ELSE origin_after(origin, url_to_path(Prefix, url), url)
                     ELSE /\ cache_dir' = cache_dir
                          /\ cres' = o.res
                          /\ origin' = origin
                  /\ last_op' = [ op EXCEPT !.fetched = o.res, !.requests = o.requests,
                                            !.recoveries = o.recoveries, !.res = cres' ]
    /\ fresh' = NoFresh
    /\ gets_since' = 0
    /\ UNCHANGED << today, cache_prefix, has_proxy, has_api, max_attempts, attempts, cpc,
                    live_held, live_lost, hvars, dvars, rvars, svars, evars, pvars >>

GetNext ==
    \/ Cache_new
    \/ DayChanges
    \/ Client_get

\* A client with a cache: the directory holds what _get has put there.
GetSpec == GetInit /\ [][GetNext]_vars

\* --------------------------------------- the workers on the tokio runtime

\* How many threads the runtime of #[tokio::main] can have (one per core).
MaxThreads == 2

\* The spawned tasks.
Tasks == DOMAIN tstate

\* A task inside a poll has a thread of the runtime, and keeps it while the
\* poll is inside std::thread::sleep: the poll has not returned.
holds_thread(run) == run \in {"polled", "sleeping"}

Occupied == Cardinality({ t \in Tasks : holds_thread(tstate[t].run) })

\* download.rs:101-105: one task per worker is spawned on the runtime made
\* at main.rs:117; every task starts ready, in do_work.
SchedInit ==
    /\ ClientIdle
    /\ DownloadIdle
    /\ RestartIdle
    /\ CacheIdle
    /\ RunIdle
    /\ ProxyIdle
    /\ threads \in 1..MaxThreads
    /\ \E n \in 1..MaxWorkers :
         tstate = [ t \in 1..n |-> [ run |-> "ready", phase |-> "work", pauses |-> 0 ] ]

\* The runtime polls a ready task on a thread that is free.
runtime_poll(t) ==
    /\ tstate[t].run = "ready"
    /\ Occupied < threads
    /\ tstate' = [ tstate EXCEPT ![t].run = "polled" ]
    /\ UNCHANGED << threads, evars, pvars, cvars, dvars, kvars, rvars >>

\* The task reaches an .await that is not ready (lock, a solver request,
\* api.rs:97 put_state, :113 status, :132 ip): the poll returns, the thread
\* is free.
task_await(t) ==
    /\ tstate[t].run = "polled"
    /\ tstate' = [ tstate EXCEPT ![t].run = "awaiting" ]
    /\ UNCHANGED << threads, evars, pvars, cvars, dvars, kvars, rvars >>

\* The awaited request completes and the task is woken.  A fetch that
\* failed leads into recover and Api::restart (client.rs:248-255).
io_completes(t) ==
    /\ tstate[t].run = "awaiting"
    /\ \E p \in (IF tstate[t].phase = "work" THEN {"work", "restart"} ELSE {"restart"}) :
         tstate' = [ tstate EXCEPT ![t].run = "ready", ![t].phase = p ]
    /\ UNCHANGED << threads, evars, pvars, cvars, dvars, kvars, rvars >>

\* api.rs:98, :100, :102, :104, :118, :136: std::thread::sleep(1000 ms)
\* inside the poll, between the phases of a restart and between two polls
\* of the control API.
task_sleep(t) ==
    /\ tstate[t].run = "polled"
    /\ tstate[t].phase = "restart"
    /\ tstate[t].pauses < MaxSeconds
    /\ tstate' = [ tstate EXCEPT ![t].run = "sleeping", ![t].pauses = @ + 1 ]
    /\ UNCHANGED << threads, evars, pvars, cvars, dvars, kvars, rvars >>

\* std::thread::sleep returns; the same poll goes on.
sleep_returns(t) ==
    /\ tstate[t].run = "sleeping"
    /\ tstate' = [ tstate EXCEPT ![t].run = "polled" ]
    /\ UNCHANGED << threads, evars, pvars, cvars, dvars, kvars, rvars >>

\* api.rs:105 after the last pause, or a `?` of a wait that timed out:
\* restart returns into the worker's loop.
restart_returns(t) ==
    /\ tstate[t].run = "polled"
    /\ tstate[t].phase = "restart"
    /\ tstate[t].pauses >= 1
    /\ tstate' = [ tstate EXCEPT ![t].phase = "work", ![t].pauses = 0 ]
    /\ UNCHANGED << threads, evars, pvars, cvars, dvars, kvars, rvars >>

SchedNext ==
    \/ \E t \in Tasks : runtime_poll(t)
    \/ \E t \in Tasks : task_await(t)
    \/ \E t \in Tasks : io_completes(t)
    \/ \E t \in Tasks : task_sleep(t)
    \/ \E t \in Tasks : sleep_returns(t)
    \/ \E t \in Tasks : restart_returns(t)

\* The worker tasks as the runtime sees them.
SchedSpec == SchedInit /\ [][SchedNext]_vars

\* ------------------------------------------- the workers over one cache

\* The backlogs of n URLs: any URLs, in any order, a URL as often as the
\* file lists it (book.rs:84-94 keeps every non-empty line).
CacheBacklogs(n) ==
    { [ k \in 1..n |-> << k - 1, f[k] >> ] : f \in [ 1..n -> CacheUrls ] }

\* multi_thread with a cache configured: config.rs:107-108 has given every
\* worker's client a Cache on the same directory, made today.
PoolInit ==
    /\ ClientIdle
    /\ RestartIdle
    /\ SchedIdle
    /\ RunIdle
    /\ ProxyIdle
    /\ today = 1
    /\ cache_prefix = 1
    /\ cache_dir = {}
    /\ last_op = NoOp
    /\ fresh = NoFresh
    /\ gets_since = 0
    /\ origin = {}
    /\ mode = "multi"
    /\ nworkers = MaxWorkers
    /\ total \in 1..MaxUrls
    /\ urls \in CacheBacklogs(total)
    /\ lock = {}
    /\ staging = {}
    /\ fails = [ i \in 0..(total - 1) |-> 0 ]
    /\ wpc = [ w \in 1..nworkers |-> "create" ]
    /\ task = [ w \in 1..nworkers |-> NoTask ]
    /\ wsession = [ w \in 1..nworkers |-> "none" ]
    /\ wcreated = [ w \in 1..nworkers |-> FALSE ]
    /\ n_wdestroy = [ w \in 1..nworkers |-> 0 ]
    /\ delivered = {}
    /\ failed = {}
    /\ fetched = {}
    /\ sidx = 0
    /\ sres = NoResult
    /\ joined = 0
    /\ opc = "running"
    /\ result = NoResult

\* The cache file of the item a worker holds.
CachePath(w) == url_to_path(Prefix, task[w][2])

\* download.rs:148-149 and :176: the chapter is written to staging, the
\* item is done, the loop goes on.
chapter_done(w) ==
    /\ staging' = staging \cup { url_to_filename(task[w][1], task[w][2]) }
    /\ delivered' = delivered \cup { task[w] }
    /\ task' = [ task EXCEPT ![w] = NoTask ]
    /\ wpc' = [ wpc EXCEPT ![w] = after_download_ok ]

\* download_chapter -> get_chapter -> the client's cached fetch,
\* client.rs:225 and cache.rs:66-67: the path is looked up; a file that is
\* there is opened for reading.
worker_get_lookup(w) ==
    /\ mode = "multi"
    /\ wpc[w] = "download"
    /\ wpc' = [ wpc EXCEPT ![w] =
                  IF path_is_file(cache_dir, CachePath(w)) THEN "reading" ELSE "n_attempts" ]
    /\ UNCHANGED << cvars, rvars, kvars, svars, evars, pvars, fetched, lock, mode, nworkers, total, urls, staging,
                    fails, task, wsession, wcreated, n_wdestroy, delivered, failed, sidx,
                    sres, joined, opc, result >>

\* cache.rs:68: read_to_string ends; the cached body is the chapter.
worker_get_read(w) ==
    /\ mode = "multi"
    /\ wpc[w] = "reading"
    /\ chapter_done(w)
    /\ UNCHANGED << cvars, rvars, kvars, svars, evars, pvars, fetched, lock, mode, nworkers, total, urls,
                    fails, wsession, wcreated, n_wdestroy, failed, sidx,
                    sres, joined, opc, result >>

\* client.rs:233: n_attempts returns a body, or the error that ends
\* download_chapter (download.rs:178).
worker_n_attempts(w) ==
    /\ mode = "multi"
    /\ wpc[w] = "n_attempts"
    /\ fetched' = fetched \cup { task[w][1] }
    /\ \E o \in n_attempts_outcomes(wsession[w]) :
         /\ wsession' = [ wsession EXCEPT ![w] = o.session ]
         /\ IF o.res.ok
            THEN /\ wpc' = [ wpc EXCEPT ![w] = "inserting" ]
                 /\ failed' = failed
            ELSE /\ wpc' = [ wpc EXCEPT ![w] = "requeue" ]
                 /\ failed' = failed \cup { task[w][1] }
    /\ UNCHANGED << cvars, rvars, kvars, svars, evars, pvars, lock, mode, nworkers, total, urls, staging,
                    fails, task, wcreated, n_wdestroy, delivered, sidx,
                    sres, joined, opc, result >>

\* cache.rs:77: File::create makes the file, or empties the one that is there.
worker_insert_create(w) ==
    /\ mode = "multi"
    /\ wpc[w] = "inserting"
    /\ cache_dir' = write_all(cache_dir, CachePath(w), "", today)
    /\ origin' = origin_after(origin, CachePath(w), task[w][2])
    /\ wpc' = [ wpc EXCEPT ![w] = "writing" ]
    /\ UNCHANGED << cvars, rvars, svars, evars, pvars, fetched, today, cache_prefix, last_op, fresh, gets_since,
                    lock, mode, nworkers, total, urls, staging,
                    fails, task, wsession, wcreated, n_wdestroy, delivered, failed, sidx,
                    sres, joined, opc, result >>

\* cache.rs:78-79: write_all stores the body n_attempts returned; the file
\* is closed.
worker_insert_write(w) ==
    /\ mode = "multi"
    /\ wpc[w] = "writing"
    /\ \E body \in Bodies :
         cache_dir' = write_all(cache_dir, CachePath(w), body, today)
    /\ origin' = origin_after(origin, CachePath(w), task[w][2])
    /\ chapter_done(w)
    /\ UNCHANGED << cvars, rvars, svars, evars, pvars, fetched, today, cache_prefix, last_op, fresh, gets_since,
                    lock, mode, nworkers, total, urls,
                    fails, wsession, wcreated, n_wdestroy, failed, sidx,
                    sres, joined, opc, result >>

PoolNext ==
    \/ \E w \in Workers : do_work_create(w)
    \/ \E w \in Workers : do_work_lock(w)
    \/ \E w \in Workers : do_work_pop(w)
    \/ \E w \in Workers : worker_get_lookup(w)
    \/ \E w \in Workers : worker_get_read(w)
    \/ \E w \in Workers : worker_n_attempts(w)
    \/ \E w \in Workers : worker_insert_create(w)
    \/ \E w \in Workers : worker_insert_write(w)
    \/ \E w \in Workers : do_work_requeue(w)
    \/ \E w \in Workers : do_work_destroy(w)
    \/ multi_thread_join
    \/ multi_thread_check

\* The multi-worker run with the steps of the cached fetch told apart.
PoolSpec == PoolInit /\ [][PoolNext]_vars

\* ------------------------------------- the workers, the cache and the parser

\* royalroad_com.rs:63-69: the page has a `div.chapter-content`.  Of the
\* bodies "A" is a chapter page and "B" a page without the element; an empty
\* file has none either.
has_chapter_content(body) == body = "A"

\* royalroad_com.rs:68 and download.rs:178-183: get_chapter returns
\* Error::html("invalid chapter page", false); the worker goes to requeue.
chapter_rejected(w) ==
    /\ rejected' = rejected \cup { task[w][1] }
    /\ failed' = failed \cup { task[w][1] }
    /\ wpc' = [ wpc EXCEPT ![w] = "requeue" ]
    /\ UNCHANGED << staging, delivered, task >>

\* cache.rs:68, client.rs:227-230, royalroad_com.rs:62-69: read_to_string
\* ends, _get returns the cached body and get_chapter parses it.
worker_get_parse(w) ==
    /\ mode = "multi"
    /\ wpc[w] = "reading"
    /\ IF has_chapter_content(FileAt(cache_dir, CachePath(w)).body)
       THEN chapter_done(w) /\ UNCHANGED << rejected, failed >>
       ELSE chapter_rejected(w)
    /\ UNCHANGED << cvars, rvars, kvars, svars, pvars, has_cache, cached, page_fetches,
                    fetched, lock, mode, nworkers, total, urls,
                    fails, wsession, wcreated, n_wdestroy, sidx,
                    sres, joined, opc, result >>

\* cache.rs:78-79, client.rs:234-238, royalroad_com.rs:62-69: write_all stores
\* the body n_attempts returned, _get returns it and get_chapter parses it.
worker_insert_parse(w) ==
    /\ mode = "multi"
    /\ wpc[w] = "writing"
    /\ \E body \in Bodies :
         /\ cache_dir' = write_all(cache_dir, CachePath(w), body, today)
         /\ IF has_chapter_content(body)
            THEN chapter_done(w) /\ UNCHANGED << rejected, failed >>
            ELSE chapter_rejected(w)
    /\ origin' = origin_after(origin, CachePath(w), task[w][2])
    /\ UNCHANGED << cvars, rvars, svars, pvars, has_cache, cached, page_fetches,
                    fetched, today, cache_prefix, last_op, fresh, gets_since,
                    lock, mode, nworkers, total, urls,
                    fails, wsession, wcreated, n_wdestroy, sidx,
                    sres, joined, opc, result >>

ParseNext ==
    \/ \E w \in Workers : do_work_create(w)
    \/ \E w \in Workers : do_work_lock(w)
    \/ \E w \in Workers : do_work_pop(w)
    \/ \E w \in Workers : worker_get_lookup(w)
    \/ \E w \in Workers : worker_get_parse(w)
    \/ \E w \in Workers : worker_n_attempts(w)
    \/ \E w \in Workers : worker_insert_create(w)
    \/ \E w \in Workers : worker_insert_parse(w)
    \/ \E w \in Workers : do_work_requeue(w)
    \/ \E w \in Workers : do_work_destroy(w)
    \/ multi_thread_join
    \/ multi_thread_check

\* The multi-worker run over one cache, the fetched page parsed by the site
\* parser.
ParseSpec == PoolInit /\ [][ParseNext]_vars

\* ------------------------------------- the proxy sent by create_session

\* Proxy URLs, user names and passwords a configuration can hold.
ProxyUrls == { "socks5://10.0.0.1:1080", "http://10.0.0.2:3128" }

Usernames == { "alice", "bob", "carol", "dave" }

Passwords == { "pw1", "pw2", "pw3", "pw4" }

\* proxy.rs:133-178: every Proxy a ProxyBuilder builds, and Client.proxy = None.
ProxyConfs ==
    [ url : ProxyUrls, username : Usernames \cup {None}, password : Passwords \cup {None} ]
    \cup { NoProxy }

\* proxy.rs:121-131: to_json.  The inner `if let` asks self.username() again,
\* so the "password" key is bound to the user name.
to_json(p) ==
    [ url      |-> p.url,
      username |-> IF p.username # None THEN p.username ELSE None,
      password |-> IF p.username # None
                   THEN (IF p.username # None THEN p.username ELSE None)
                   ELSE None ]

\* client.rs:170-174: the JSON object of sessions.create.
create_session_data(p) ==
    [ cmd |-> "sessions.create", proxy |-> IF p # NoProxy THEN to_json(p) ELSE NoProxy ]

\* A client built with any proxy, before its first call.
ProxyInit ==
    /\ session = "none"
    /\ proxy_conf \in ProxyConfs
    /\ sent = NoData
    /\ has_proxy = (proxy_conf # NoProxy)
    /\ has_api = FALSE
    /\ max_attempts = 1
    /\ attempts = 0
    /\ cpc = "new"
    /\ cres = NoResult
    /\ live_held = FALSE
    /\ live_lost = 0
    /\ NoHistory
    /\ DownloadIdle
    /\ RestartIdle
    /\ CacheIdle
    /\ SchedIdle
    /\ RunIdle

\* Client::create_session, client.rs:167-186, with the object it posts.
create_session_post ==
    /\ cpc = "new"
    /\ sent' = create_session_data(proxy_conf)
    /\ \E r \in Responses :
         LET res == create_session(r) IN
         /\ session' = IF res.ok THEN "held" ELSE session
         /\ cpc' = IF res.ok THEN "ready" ELSE "closed"
         /\ cres' = res
         /\ CreateAtSolver(r, res)
    /\ UNCHANGED << has_proxy, has_api, max_attempts, attempts, hvars, proxy_conf,
                    dvars, rvars, kvars, svars, evars >>

ProxyNext ==
    \/ create_session_post
    \/ CallerDestroySession

\* Session create and destroy of a client with a proxy.
ProxySpec == ProxyInit /\ [][ProxyNext]_vars

\* ------------------------------------- the single-threaded run, step by step

\* What _get passes to n_attempts (client.rs:233).
GetAttempts == 5

\* What the run has fetched for an item so far.
NoFetches == [ fetches |-> 0, failures |-> 0, restarts |-> 0 ]

\* The solver of the run: session calls succeed; a page fetch returns the page
\* or has no solution in its answer.
StubFetchResults == { Ok("response"), Error("Solution", FALSE, "no solution in response") }

\* download.rs:44-45 or :38-39: config.to_client() or to_client_with_proxy(),
\* with or without a cache directory, the cache holding any of the pages; then
\* single_thread is entered.
RunInit ==
    /\ session = "none"
    /\ has_proxy \in BOOLEAN
    /\ has_api = FALSE
    /\ max_attempts = 1
    /\ attempts = 0
    /\ cpc = "new"
    /\ cres = NoResult
    /\ live_held = FALSE
    /\ live_lost = 0
    /\ NoHistory
    /\ RestartIdle
    /\ CacheIdle
    /\ SchedIdle
    /\ ProxyIdle
    /\ mode = "single"
    /\ nworkers = 1
    /\ total \in 1..MaxUrls
    /\ urls = Backlog(total)
    /\ lock = {}
    /\ staging \in SUBSET { url_to_filename(i, Url(i)) : i \in 0..(total - 1) }
    /\ fails = [ i \in 0..(total - 1) |-> 0 ]
    /\ wpc = [ w \in 1..nworkers |-> "create" ]
    /\ task = [ w \in 1..nworkers |-> NoTask ]
    /\ wsession = [ w \in 1..nworkers |-> "none" ]
    /\ wcreated = [ w \in 1..nworkers |-> FALSE ]
    /\ n_wdestroy = [ w \in 1..nworkers |-> 0 ]
    /\ delivered = {}
    /\ failed = {}
    /\ fetched = {}
    /\ sidx = 0
    /\ sres = NoResult
    /\ joined = 0
    /\ opc = "running"
    /\ result = NoResult
    /\ has_cache \in BOOLEAN
    /\ cached \in SUBSET (0..(total - 1))
    /\ (~has_cache) => cached = {}
    /\ rejected = {}
    /\ page_fetches = [ i \in 0..(total - 1) |-> NoFetches ]

\* download.rs:54: `client.create_session().await?`
run_create_session ==
    /\ wpc[1] = "create"
    /\ cpc = "new"
    /\ \E r \in Responses :
         LET res == create_session(r) IN
         /\ res.ok
         /\ session' = "held"
         /\ cpc' = "ready"
         /\ cres' = res
         /\ CreateAtSolver(r, res)
    /\ wpc' = [ wpc EXCEPT ![1] = "setup" ]
    /\ wcreated' = [ wcreated EXCEPT ![1] = TRUE ]
    /\ UNCHANGED << has_proxy, has_api, max_attempts, attempts, hvars >>
    /\ UNCHANGED << rvars, kvars, svars, evars, pvars, fetched, lock, mode, nworkers, total,
                    urls, staging, fails, task, wsession, n_wdestroy, delivered, failed,
                    sidx, sres, joined, opc, result >>

always_retries(c) == TRUE

\* client.rs:224-225, :243-245: `if has_cache { .. n_attempts .. } else
\* { self.fetch(..) }`
retries_with(c) == c

\* download.rs:65-68, :124-146 and client.rs:219-233: the loop takes the next
\* URL; download_chapter passes it by when its file is there and calls
\* get_chapter otherwise, which calls _get: a cached page is returned, a
\* missing one is fetched by n_attempts, and without a cache by one fetch.
run_next_url ==
    /\ wpc[1] = "loop"
    /\ cpc = "ready"
    /\ IF sidx = total
       THEN /\ sres' = Ok("()")
            /\ wpc' = [ wpc EXCEPT ![1] = "destroy" ]
            /\ UNCHANGED << delivered, sidx, fetched, cpc, cres, max_attempts, attempts >>
       ELSE IF is_file(urls[sidx + 1])
       THEN /\ delivered' = delivered \cup { urls[sidx + 1] }
            /\ sidx' = sidx + 1
            /\ UNCHANGED << sres, wpc, fetched, cpc, cres, max_attempts, attempts >>
       ELSE /\ fetched' = fetched \cup { sidx }
            /\ UNCHANGED << sres, wpc, delivered, sidx >>
            /\ IF has_cache /\ sidx \in cached
               THEN /\ cpc' = "returned"
                    /\ cres' = Ok("response")
                    /\ UNCHANGED << max_attempts, attempts >>
               ELSE IF retries_with(has_cache)
               THEN /\ max_attempts' = GetAttempts
                    /\ attempts' = 0
                    /\ cpc' = "fetch"
                    /\ cres' = NoResult
               ELSE /\ cpc' = "fetch_once"
                    /\ cres' = NoResult
                    /\ UNCHANGED << max_attempts, attempts >>
    /\ UNCHANGED << session, has_proxy, has_api, live_held, live_lost, hvars >>
    /\ UNCHANGED << rvars, kvars, svars, evars, pvars, lock, mode, nworkers, total, urls,
                    staging, fails, task, wsession, wcreated, n_wdestroy, failed, joined,
                    opc, result >>

\* client.rs:243-245: without a cache _get is one fetch, whose result it
\* returns.
Client_get_fetch ==
    /\ cpc = "fetch_once"
    /\ \E r \in Responses :
         LET res == fetch(r) IN
         /\ res \in StubFetchResults
         /\ n_fetch' = n_fetch + 1
         /\ fetch_env' = r
         /\ fetch_res' = res
         /\ first_res' = IF n_fetch = 0 THEN res ELSE first_res
         /\ cres' = res
         /\ n_fetch_fail' = n_fetch_fail + (IF res.ok THEN 0 ELSE 1)
         /\ n_fetch_solution' = n_fetch_solution + (IF res.ok THEN 0 ELSE 1)
         /\ last_err' = IF res.ok THEN last_err ELSE res
    /\ cpc' = "returned"
    /\ UNCHANGED << session, has_proxy, has_api, max_attempts, attempts, live_held,
                    live_lost, n_recover, n_rec_ok, n_rec_fail, n_destroy, n_restart,
                    n_create, rec_step, rec_res >>
    /\ UNCHANGED << dvars, rvars, kvars, svars, evars, pvars >>

\* n_attempts' fetch against the solver of the run.
run_n_attempts_fetch == n_attempts_fetch /\ fetch_res' \in StubFetchResults

\* recover's steps against the solver of the run.
run_recover_destroy == recover_destroy /\ rec_res'.ok

run_recover_restart == recover_restart /\ rec_res'.ok

run_recover_create == recover_create /\ rec_res'.ok

\* client.rs:234-238 and download.rs:146-149, :68: _get puts the fetched page
\* into the cache and returns it, download_chapter writes the chapter file and
\* the loop goes on; an error ends the loop.
run_chapter_done ==
    /\ wpc[1] = "loop"
    /\ cpc = "returned"
    /\ page_fetches' = [ page_fetches EXCEPT ![sidx] =
                           [ fetches |-> n_fetch, failures |-> n_fetch_fail,
                             restarts |-> n_restart ] ]
    /\ IF cres.ok
       THEN /\ cached' = IF has_cache THEN cached \cup { sidx } ELSE cached
            /\ staging' = staging \cup { url_to_filename(sidx, Url(sidx)) }
            /\ delivered' = delivered \cup { urls[sidx + 1] }
            /\ sidx' = sidx + 1
            /\ cpc' = "ready"
            /\ UNCHANGED << sres, failed, wpc >>
       ELSE /\ sres' = cres
            /\ failed' = failed \cup { sidx }
            /\ wpc' = [ wpc EXCEPT ![1] = "destroy" ]
            /\ cpc' = "ready"
            /\ UNCHANGED << cached, staging, delivered, sidx >>
    /\ first_res' = NoResult
    /\ last_err' = NoResult
    /\ n_fetch' = 0 /\ n_fetch_fail' = 0 /\ n_fetch_solution' = 0
    /\ n_recover' = 0 /\ n_rec_ok' = 0 /\ n_rec_fail' = 0
    /\ n_destroy' = 0 /\ n_restart' = 0 /\ n_create' = 0
    /\ rec_step' = "none" /\ rec_res' = NoResult
    /\ fetch_env' = NoResponse /\ fetch_res' = NoResult
    /\ UNCHANGED << session, has_proxy, has_api, max_attempts, attempts, cres,
                    live_held, live_lost, has_cache, rejected >>
    /\ UNCHANGED << rvars, kvars, svars, pvars, fetched, lock, mode, nworkers, total, urls,
                    fails, task, wsession, wcreated, n_wdestroy, joined, opc, result >>

\* download.rs:71-72: `client.destroy_session().await?; res`
run_destroy_session ==
    /\ wpc[1] = "destroy"
    /\ cpc = "ready"
    /\ LET res == destroy_session(session, "ok") IN
         /\ session' = "none"
         /\ result' = sres
         /\ cres' = res
         /\ DestroyAtSolver("ok")
    /\ cpc' = "closed"
    /\ wpc' = [ wpc EXCEPT ![1] = "terminated" ]
    /\ n_wdestroy' = [ n_wdestroy EXCEPT ![1] = @ + 1 ]
    /\ opc' = "done"
    /\ UNCHANGED << has_proxy, has_api, max_attempts, attempts, hvars >>
    /\ UNCHANGED << rvars, kvars, svars, evars, pvars, fetched, lock, mode, nworkers, total,
                    urls, staging, fails, task, wsession, wcreated, delivered, failed,
                    sidx, sres, joined >>

RunNext ==
    \/ run_create_session
    \/ single_thread_setup
    \/ run_next_url
    \/ Client_get_fetch
    \/ run_n_attempts_fetch
    \/ run_recover_destroy
    \/ run_recover_restart
    \/ run_recover_create
    \/ run_chapter_done
    \/ run_destroy_session

\* One single-threaded run against a solver whose page fetches can fail for
\* want of a solution.
RunSpec == RunInit /\ [][RunNext]_vars

\* ------------------------------------------------------------------ claims

\* A call of n_attempts is running or has just returned.
InCall == cpc \in {"fetch", "destroy", "restart", "create", "returned"}

\* Every fetch of the call so far failed with a non-fatal Solution error.
AllFetchesSolution == n_fetch_solution = n_fetch

\* Every recover of the call so far returned Ok.
AllRecoveriesOk == n_rec_ok = n_recover

\* C1: when every fetch returns a non-fatal Solution error and every recover
\* succeeds, n_attempts(max_attempts = N) never fetches more than N times, and
\* it returns only after exactly N failed fetches, with that Solution error.
C1_RetryBudgetExhaustion ==
    (InCall /\ AllFetchesSolution) =>
        /\ n_fetch <= max_attempts
        /\ (cpc = "returned" /\ AllRecoveriesOk) =>
              /\ n_fetch = max_attempts
              /\ n_fetch_fail = max_attempts
              /\ ~cres.ok
              /\ cres.error_type = "Solution"
              /\ ~cres.fatal

C1_Witness ==
    /\ cpc = "returned"
    /\ AllFetchesSolution
    /\ AllRecoveriesOk
    /\ max_attempts = 3
    /\ n_fetch = 3
    /\ n_recover = 2
    /\ cres.error_type = "Solution"

\* C2: when the first fetch of a call returns a fatal error, n_attempts has
\* returned that error and has done nothing else: one fetch, no recover, no
\* destroy_session, no restart, no create_session, no attempt counted.
C2_FatalShortCircuit ==
    (InCall /\ n_fetch >= 1 /\ ~first_res.ok /\ first_res.fatal) =>
        /\ cpc = "returned"
        /\ cres = first_res
        /\ n_fetch = 1
        /\ n_recover = 0
        /\ n_destroy = 0
        /\ n_restart = 0
        /\ n_create = 0
        /\ attempts = 0

C2_Witness ==
    /\ cpc = "returned"
    /\ n_fetch = 1
    /\ first_res.error_type = "Proxy"
    /\ first_res.fatal
    /\ cres = first_res
    /\ session = "held"

\* C3: one counter counts the non-fatal fetch failures and the non-fatal
\* recover failures of a call; it never exceeds max_attempts, and the moment
\* it reaches max_attempts the call has returned the most recent error,
\* whichever side raised it.
C3_SharedAttemptBudget ==
    InCall =>
        /\ attempts = n_fetch_fail + n_rec_fail
        /\ attempts <= max_attempts
        /\ (attempts = max_attempts) => (cpc = "returned" /\ cres = last_err)

C3_Witness ==
    /\ cpc = "returned"
    /\ attempts = max_attempts
    /\ n_fetch_fail >= 1
    /\ n_rec_fail >= 2
    /\ cres = last_err
    /\ cres.error_type = "Proxy"

\* The workers that hold the item.
Holders(it) == { w \in Workers : task[w] = it }

\* In how many places the item is: queue entries, holders, delivered.
Places(it) ==
    SeqCount(urls, it) + Cardinality(Holders(it)) + (IF it \in delivered THEN 1 ELSE 0)

\* The staging directory holds the file of every item of the backlog.
AllOutputs ==
    /\ \A it \in Items : is_file(it)
    /\ Cardinality({ url_to_filename(it[1], it[2]) : it \in Items }) = total

\* C4: in the multi-worker run every item is in exactly one place (once in
\* the queue, held by one worker that is downloading or requeueing it, or
\* delivered), and a delivered item has its output file.
C4_NoItemLostOrDuplicated ==
    (mode = "multi") =>
        /\ \A it \in Items : Places(it) = 1
        /\ \A w \in Workers :
              IF wpc[w] \in {"download", "requeue"} THEN task[w] \in Items
              ELSE task[w] = NoTask
        /\ \A it \in delivered : is_file(it)

C4_Witness ==
    /\ mode = "multi"
    /\ total = 2
    /\ failed # {}
    /\ \E w \in Workers : wpc[w] = "download" /\ task[w][1] \in failed
    /\ Len(urls) = 1

\* Every worker's create_session succeeded.
AllCreated == \A w \in Workers : wcreated[w]

C5_DoneWithoutFailure ==
    (opc = "done" /\ mode = "multi" /\ failed = {} /\ \E w \in Workers : wcreated[w]) =>
        (result.ok /\ AllOutputs /\ delivered = Items)

OnlyPoisoned(p) ==
    /\ fails[p] = Poisoned
    /\ failed \subseteq {p}
    /\ \A i \in 0..(total - 1) : i # p => fails[i] = 0

\* C6, as claimed: with one poisoned URL the finished run has reported
\* failure and exactly one item is left in the queue.
C6_ExactlyOneUndelivered ==
    (opc = "done" /\ mode = "multi" /\ AllCreated
        /\ \E p \in 0..(total - 1) : OnlyPoisoned(p)) =>
        (~result.ok /\ Len(urls) = 1)

\* C6, amended: with one poisoned URL the finished run has reported failure
\* and the poisoned item is in the queue; the items left are at least 1 and
\* at most M.
C6_PoisonedUndelivered ==
    \A p \in 0..(total - 1) :
        (opc = "done" /\ mode = "multi" /\ OnlyPoisoned(p)) =>
            /\ ~result.ok
            /\ SeqCount(urls, Item(p)) = 1
            /\ Item(p) \notin delivered
            /\ Len(urls) >= 1
            /\ Len(urls) <= total

C6_Witness ==
    /\ opc = "done"
    /\ mode = "multi"
    /\ AllCreated
    /\ total = 2
    /\ OnlyPoisoned(0)
    /\ Len(urls) = 2
    /\ ~result.ok

\* C7: a worker whose download fails keeps the item, pushes that same item
\* to the front of the queue, and from then on only destroys its session and
\* terminates; the requeue changes no other worker.
C7_FailFastWorker ==
    [][ (mode = "multi") =>
        \A w \in Workers :
           /\ (wpc[w] = "download" /\ ~download_chapter_ok(task[w]) /\ wpc'[w] # "download") =>
                 (wpc'[w] = "requeue" /\ task'[w] = task[w] /\ urls' = urls)
           /\ (wpc[w] = "requeue" /\ wpc'[w] # "requeue") =>
                 /\ urls' = << task[w] >> \o urls
                 /\ wpc'[w] = "destroy"
                 /\ \A v \in Workers \ {w} : wpc'[v] = wpc[v] /\ task'[v] = task[v]
           /\ (wpc[w] \in {"destroy", "terminated"}) =>
                 (wpc'[w] \in {"destroy", "terminated"} /\ task'[w] = NoTask)
      ]_vars

C7_Witness ==
    /\ mode = "multi"
    /\ \E w, v \in Workers :
          /\ w # v
          /\ wpc[w] = "terminated"
          /\ wpc[v] = "download"
          /\ task[v][1] \in failed
          /\ urls # << >>

\* C8: the command is done only when every worker has terminated, it has
\* reported success exactly when the queue is empty, and then every item was
\* delivered and has its output.
C8_CompletionCheck ==
    (opc = "done" /\ mode = "multi") =>
        /\ \A w \in Workers : wpc[w] = "terminated"
        /\ result.ok <=> (urls = << >>)
        /\ result.ok => (delivered = Items /\ AllOutputs)

C8_Witness ==
    /\ opc = "done"
    /\ mode = "multi"
    /\ result.ok
    /\ total = 2
    /\ failed # {}

\* The numbers an error message spells out.
NumbersIn(message) ==
    CASE message = "returned status 404" -> {404}
      [] OTHER -> {}

\* C9, as claimed: the failure the command returns carries the number of
\* items left in the queue.
C9_FailureCarriesCount ==
    (opc = "done" /\ mode = "multi" /\ urls # << >>) =>
        (~result.ok /\ Len(urls) \in NumbersIn(result.message))

\* C9, amended: with items left in the queue the command returns the fatal
\* Solver error "not all URLs were downloaded successfully", the same for
\* every number of items left; the error carries no count.
C9_FailureIsFixedError ==
    (opc = "done" /\ mode = "multi" /\ urls # << >>) =>
        /\ result = Error("Solver", TRUE, "not all URLs were downloaded successfully")
        /\ NumbersIn(result.message) = {}

C9_Witness ==
    /\ opc = "done"
    /\ mode = "multi"
    /\ Len(urls) = 2
    /\ ~result.ok

\* C10, as claimed: every terminated worker has called destroy_session.
C10_AlwaysDestroys ==
    \A w \in Workers : (wpc[w] = "terminated") => (n_wdestroy[w] >= 1)

\* C10, amended: every terminated worker of the multi-worker run has called
\* destroy_session once, however its loop ended; so has the single-threaded
\* run once its session was created, but it returns without the call when
\* create_session failed.
C10_DestroysUnlessSingleCreateFailed ==
    \A w \in Workers :
        (wpc[w] = "terminated") =>
            IF mode = "single" /\ ~wcreated[w]
            THEN n_wdestroy[w] = 0
            ELSE n_wdestroy[w] = 1

C10_Witness ==
    /\ mode = "multi"
    /\ \E w, v \in Workers :
          /\ wpc[w] = "terminated" /\ ~wcreated[w] /\ n_wdestroy[w] = 1
          /\ wpc[v] = "terminated" /\ wcreated[v] /\ n_wdestroy[v] = 1
          /\ failed # {}

\* Worker w takes an item off the queue in this step.
Pops(w) == wpc[w] = "pop" /\ wpc'[w] = "download"

\* The positions of the queue that hold an item put back after a failure.
RequeuedAt == { k \in 1..Len(urls) : urls[k][1] \in failed }

\* C11, as claimed: whenever a worker pops, the item it gets is every item
\* that was requeued and has not been popped since.
C11_NextPopReturnsRequeued ==
    [][ \A w \in Workers :
          Pops(w) => \A k \in RequeuedAt : task'[w] = urls[k] ]_vars

\* C11, amended: the requeued items lie at the front of the queue, ahead of
\* every item not yet tried, and a pop takes the front item: with requeued
\* items waiting it returns the one requeued last, never an item behind them.
C11_RequeuedBeforeBacklog ==
    [][ /\ \A k \in RequeuedAt : \A j \in 1..k : j \in RequeuedAt
        /\ \A w \in Workers :
              Pops(w) =>
                 /\ task'[w] = Head(urls)
                 /\ urls' = Tail(urls)
                 /\ (RequeuedAt # {}) => (task'[w][1] \in failed)
      ]_vars

C11_Witness ==
    /\ mode = "multi"
    /\ total = 2
    /\ failed = {0, 1}
    /\ \E w \in Workers : wpc[w] = "download" /\ task[w] = Item(1)
    /\ urls = << Item(0) >>

\* C12: a worker pops only when its own create_session succeeded and it holds
\* the session; a worker whose create_session failed goes on to destroy_session
\* and terminates, and none of its steps touches the queue or takes an item.
C12_PopsOnlyWithSession ==
    [][ (mode = "multi") =>
        \A w \in Workers :
           /\ Pops(w) => (wcreated[w] /\ wsession[w] = "held")
           /\ (wpc[w] = "pop") => wcreated[w]
           /\ (wpc[w] = "create" /\ wpc'[w] # "create" /\ ~wcreated'[w]) =>
                 (wpc'[w] = "destroy" /\ urls' = urls /\ task' = task)
           /\ (~wcreated[w] /\ wpc[w] # "create") =>
                 /\ wpc[w] \in {"destroy", "terminated"}
                 /\ wpc'[w] \in {"destroy", "terminated"}
                 /\ task[w] = NoTask /\ task'[w] = NoTask
                 /\ (wpc'[w] # wpc[w]) => (urls' = urls)
      ]_vars

C12_Witness ==
    /\ mode = "multi"
    /\ total = 2
    /\ \E w, v \in Workers :
          /\ wpc[w] = "terminated" /\ ~wcreated[w]
          /\ wcreated[v] /\ wpc[v] = "download"
          /\ Len(urls) = 1

\* A step of the running call (not the caller's reset of the history).
Running == cpc \in {"fetch", "destroy", "restart", "create"}

\* C13: recover calls destroy_session first; it calls Proxy::restart only with
\* a proxy configured and only after destroy_session returned Ok; it calls
\* create_session only after the step before it (restart with a proxy,
\* destroy_session without) returned Ok; a step's fatal error is what the call
\* returns and nothing runs after it.
C13_RecoverOrder ==
    [][ /\ (Running /\ n_destroy' # n_destroy) =>
              /\ cpc = "destroy"
              /\ rec_step' = "destroy"
              /\ n_destroy' = n_destroy + 1 /\ n_recover' = n_recover + 1
              /\ n_restart' = n_restart /\ n_create' = n_create
        /\ (Running /\ n_restart' # n_restart) =>
              /\ has_proxy
              /\ rec_step = "destroy" /\ rec_res.ok
              /\ rec_step' = "restart"
              /\ n_restart' = n_restart + 1
              /\ n_destroy' = n_destroy /\ n_create' = n_create
        /\ (Running /\ n_create' # n_create) =>
              /\ rec_step = (IF has_proxy THEN "restart" ELSE "destroy") /\ rec_res.ok
              /\ rec_step' = "create"
              /\ n_create' = n_create + 1
              /\ n_destroy' = n_destroy /\ n_restart' = n_restart
        /\ (~has_proxy) => n_restart' = 0
        /\ (~rec_res.ok /\ rec_res.fatal) =>
              /\ cpc \in {"returned", "closed"}
              /\ (cpc = "returned") => (cres = rec_res)
              /\ rec_step' = rec_step /\ n_fetch' = n_fetch
              /\ n_destroy' = n_destroy /\ n_restart' = n_restart /\ n_create' = n_create
      ]_vars

C13_Witness ==
    /\ cpc = "returned"
    /\ has_proxy
    /\ rec_step = "create" /\ ~rec_res.ok /\ rec_res.fatal
    /\ n_recover = 2 /\ n_destroy = 2 /\ n_restart = 2 /\ n_create = 1

\* C14, as claimed: whenever recover has called destroy_session, the call
\* returned Ok and the client holds no session.
C14_DestroyNeverFails ==
    (rec_step = "destroy") => (rec_res.ok /\ session = "none")

\* The solver answered create_session with an error status, or with an
\* envelope that has no session token.
CreateRejected(r) ==
    r.net = "ok" /\ r.json /\ (r.status # "ok" \/ ~r.has_session)

\* What create_session returns on such answers.
CreateRejections == { create_session(r) : r \in { q \in Responses : CreateRejected(q) } }

\* C15, as claimed: create_session's error on such an answer is fatal and the
\* session is unset.
C15_CreateSessionFailsFatally ==
    (rec_step = "create" /\ rec_res \in CreateRejections) =>
        (~rec_res.ok /\ rec_res.fatal /\ session = "none")

\* C15, amended: create_session fails on every such answer and leaves the
\* session unset; the error is fatal for an error status whose message has the
\* tunnel marker or lacks the challenge marker, and the non-fatal Solution
\* error for an error status with only the challenge marker and for a missing
\* session token.
C15_CreateSessionFailure ==
    (rec_step = "create") =>
        \A r \in Responses :
            (CreateRejected(r) /\ create_session(r) = rec_res) =>
                /\ ~rec_res.ok
                /\ session = "none"
                /\ cpc \in {"destroy", "returned", "closed"}
                /\ rec_res.fatal <=>
                      /\ r.status # "ok"
                      /\ Contains(r.message, TunnelMarker) \/ ~Contains(r.message, ChallengeMarker)
                /\ (~rec_res.fatal) => rec_res.error_type = "Solution"
                /\ (r.status = "ok") => rec_res = Error("Solution", FALSE, "no session in response")

C15_Witness ==
    /\ rec_step = "create"
    /\ rec_res = Error("Solution", FALSE, "no session in response")
    /\ session = "none"
    /\ cpc = "destroy"
    /\ n_rec_fail = 1

\* The sessions the solver has for this client.
LiveSessions == live_lost + (IF live_held THEN 1 ELSE 0)

\* C16: through every create_session, destroy_session, fetch and recover of
\* the client, failed ones included, the solver never has more than one
\* session of this client, and a session the client holds a token for after a
\* successful create_session is that one.
C16_AtMostOneLiveSession ==
    /\ LiveSessions <= 1
    /\ (cpc \in {"ready", "fetch"} /\ session = "held") => (live_held /\ live_lost = 0)

C16_Witness ==
    /\ live_lost = 1
    /\ ~live_held
    /\ session = "none"
    /\ n_destroy = 2
    /\ n_create = 2
    /\ rec_step = "create" /\ rec_res.fatal

\* The solver answered with an envelope: the request went through and the
\* body was JSON.
Envelope(r) == r.net = "ok" /\ r.json

\* C17: what fetch makes of an envelope follows the table, first match wins:
\* error status with the tunnel marker, Proxy and fatal; else with the
\* challenge marker, Solution and non-fatal; any other error status, Solver
\* and fatal; status ok without a solution, Solution and non-fatal; a solution
\* whose status is not 200, Status and fatal; a solution with status 200, the
\* response body.
C17_FetchDecisionTable ==
    LET r == fetch_env
        res == fetch_res IN
    Envelope(r) =>
        IF r.status # "ok"
        THEN IF Contains(r.message, TunnelMarker)
             THEN res = Error("Proxy", TRUE, r.message)
             ELSE IF Contains(r.message, ChallengeMarker)
                  THEN res = Error("Solution", FALSE, r.message)
                  ELSE res = Error("Solver", TRUE, r.message)
        ELSE IF ~r.has_solution
             THEN ~res.ok /\ res.error_type = "Solution" /\ ~res.fatal
             ELSE IF r.sol_status # 200
                  THEN ~res.ok /\ res.error_type = "Status" /\ res.fatal
                  ELSE res = Ok("response")

C17_Witness ==
    /\ cpc = "returned"
    /\ Envelope(fetch_env)
    /\ fetch_env.status = "error"
    /\ Contains(fetch_env.message, TunnelMarker)
    /\ Contains(fetch_env.message, ChallengeMarker)
    /\ cres = Error("Proxy", TRUE, fetch_env.message)
    /\ n_fetch = 2

\* The error of a wait of Api::restart that ran out of time.
IsTimeout(e) ==
    /\ e.error_type = "Proxy"
    /\ e.message \in {"waiting for proxy timed out", "waiting for IP timed out"}

\* The failures the claim lets n_attempts retry: a Solution error, and a
\* timeout raised by the restart step of recover.
Retryable(e, step) ==
    e.error_type = "Solution" \/ (step = "restart" /\ IsTimeout(e))

\* What n_attempts does with the failure e of the step just taken: a retryable
\* one is non-fatal, takes one attempt and leads to recover unless the budget
\* is spent; any other is fatal and is returned at once, no attempt counted.
Handled(e, step) ==
    IF Retryable(e, step)
    THEN /\ ~e.fatal
         /\ attempts' = attempts + 1
         /\ last_err' = e
         /\ IF attempts' >= max_attempts THEN cpc' = "returned" /\ cres' = e
            ELSE cpc' = "destroy"
    ELSE /\ e.fatal
         /\ attempts' = attempts
         /\ cpc' = "returned" /\ cres' = e

\* C18: of the errors of fetch, destroy_session, restart and create_session
\* only a Solution error and a restart timeout are retried; every other error
\* is fatal and ends n_attempts at once; after n_attempts returned an error
\* no fetch and no step of recover runs.
C18_OnlySolutionAndTimeoutRetried ==
    [][ /\ (cpc = "fetch" /\ ~fetch_res'.ok) => Handled(fetch_res', "fetch")
        /\ (cpc \in {"destroy", "restart", "create"} /\ ~rec_res'.ok) =>
              Handled(rec_res', rec_step')
        /\ (cpc = "returned" /\ ~cres.ok) =>
              /\ cpc' = "closed"
              /\ n_fetch' = n_fetch /\ n_recover' = n_recover
              /\ n_destroy' = n_destroy /\ n_restart' = n_restart /\ n_create' = n_create
      ]_vars

C18_Witness ==
    /\ cpc = "returned"
    /\ n_rec_fail >= 1
    /\ IsTimeout(last_err)
    /\ n_fetch_solution >= 1
    /\ ~cres.ok /\ cres.fatal /\ cres.error_type = "Json"
    /\ fetch_res = cres

\* The requests and observations of a restart in the order the claim gives.
ClaimedRestartOrder ==
    << "put stopped", "saw stopped", "put running", "saw running", "saw ip" >>

\* C19, as claimed: what restart has sent and observed so far is always a
\* beginning of: request Stopped, Stopped observed, request Running, Running
\* observed, IP observed; a restart that returned Ok went through all of it.
C19_RestartOrder ==
    /\ Len(trace) <= Len(ClaimedRestartOrder)
    /\ trace = SubSeq(ClaimedRestartOrder, 1, Len(trace))
    /\ (rpc = "returned" /\ rres.ok) => trace = ClaimedRestartOrder

\* C20: a restart that returned without having observed Running in its wait
\* for Running returned a timeout error (the non-fatal Proxy error of a wait);
\* and after the one request restart sends, the stop, the status was polled at
\* least once before restart went on or returned.
C20_RestartTimeout ==
    /\ (rpc = "returned" /\ \A k \in 1..Len(trace) : trace[k] # "saw running") =>
          (~rres.ok /\ IsTimeout(rres) /\ ~rres.fatal)
    /\ (rpc \in {"wait_running", "wait_ip", "returned"}) =>
          /\ trace[1] = "put stopped"
          /\ \A k \in 2..Len(trace) : trace[k] \notin {"put stopped", "put running"}
          /\ polls >= 1

C20_Witness ==
    /\ rpc = "returned"
    /\ trace = << "put stopped", "saw stopped" >>
    /\ seconds = 2
    /\ polls = 3
    /\ ctl_state = "stopped"
    /\ rres = Error("Proxy", FALSE, "waiting for proxy timed out")

\* What the waits of restart have observed so far, in order.
Observed == SelectSeq(trace, LAMBDA ev : ev \in {"saw stopped", "saw running", "saw ip"})

WaitOrder == << "saw stopped", "saw running", "saw ip" >>

\* The state of a restart by how far its waits came.
C21_WaitsInOrder ==
    /\ Len(Observed) <= 3
    /\ Observed = SubSeq(WaitOrder, 1, Len(Observed))
    /\ elapsed <= seconds
    /\ (rpc \in {"wait_stopped", "wait_running", "wait_ip"}) => elapsed < seconds
    /\ (rpc = "wait_stopped") => Observed = << >>
    /\ (rpc = "wait_running") => Observed = << "saw stopped" >>
    /\ (rpc = "wait_ip") => Observed = << "saw stopped", "saw running" >>
    /\ (rpc = "returned" /\ rres.ok) => Observed = WaitOrder
    /\ (rpc = "returned" /\ ~rres.ok) =>
          /\ IsTimeout(rres)
          /\ elapsed = seconds
          /\ Len(Observed) < 3
          /\ (rres.message = "waiting for IP timed out") <=> (Len(Observed) = 2)

\* C21: the waits of restart run one after the other, each with its own
\* window of `seconds`: restart returns Ok only after Stopped, then Running,
\* then an IP were observed in that order; a wait whose window runs out makes
\* restart return the timeout error, and after restart returned no wait polls.
C21_SequentialBoundedWaits ==
    /\ []C21_WaitsInOrder
    /\ [][ /\ (rpc = "returned") => (rpc' = rpc /\ polls' = polls /\ trace' = trace /\ rres' = rres)
           /\ (rpc' # rpc /\ rpc' # "returned") => elapsed' = 0
         ]_vars

C21_Witness ==
    /\ rpc = "returned"
    /\ seconds = 2
    /\ elapsed = 2
    /\ Observed = << "saw stopped", "saw running" >>
    /\ rres = Error("Proxy", FALSE, "waiting for IP timed out")


\* ---------------------------------------------------------------- C28

\* A worker that has reached a lock().await of the queue.
WantsQueue(w) == wpc[w] \in {"pop", "requeue"}

\* Some worker at the queue can take its step: acquire, or pop or push and release.
QueueStepEnabled ==
    ENABLED (\E w \in Workers : do_work_lock(w) \/ do_work_pop(w) \/ do_work_requeue(w))

\* C28: the queue mutex is held only across one pop or one push.  At most
\* one worker holds a guard, a holder is at its pop or its push and nowhere
\* else (not creating or destroying a session, not downloading), the
\* holder's next step is that pop or push and drops the guard, the queue
\* changes only in such a step, and whenever some worker wants the queue a
\* step at the queue is possible, so the run cannot deadlock on the lock.
C28_LockOnlyAcrossPopOrPush ==
    /\ [](/\ Cardinality(lock) <= 1
          /\ \A w \in lock : WantsQueue(w)
          /\ (mode = "multi" /\ \E w \in Workers : WantsQueue(w)) => QueueStepEnabled)
    /\ [][ /\ \A w \in lock : wpc'[w] # wpc[w] => w \notin lock'
           /\ (mode = "multi" /\ urls' # urls) => \E w \in lock : lock' = lock \ {w}
         ]_vars

C28_Witness ==
    /\ mode = "multi"
    /\ nworkers = 2
    /\ lock = {1}
    /\ wpc[1] = "requeue"
    /\ wpc[2] = "download"

\* ---------------------------------------------------------------- C24

\* C24: after Insert(url, payload) has succeeded, every Get(url) that
\* follows with no other cache operation in between, the first and the
\* second alike, returns exactly that payload, whatever the URL and the
\* payload; a Get leaves the directory as it was.
C24_InsertThenGetsReturnPayload ==
    (last_op.op = "get") =>
        /\ cache_dir = last_op.dir_before
        /\ (fresh # NoFresh) => last_op.got = Found(fresh.data)

\* ---------------------------------------------------------------- C25

\* The entries of a directory that carry the prefix of that day.
OfDay(dir, day) == { f \in dir : starts_with(f.name, date_naive_to_string(day)) }

\* C25: when New has returned a Cache, no entry whose name does not start
\* with the prefix of the day of the call is left in the directory, and
\* every entry that had that prefix before the call is still there with the
\* content it had.  The entries of the day also survive a New that failed.
C25_NewPurgesByDayPrefix ==
    (last_op.op = "new") =>
        /\ last_op.res.ok => OfDay(cache_dir, last_op.day) = cache_dir
        /\ OfDay(last_op.dir_before, last_op.day) \subseteq cache_dir
        /\ cache_dir \subseteq last_op.dir_before

C25_Witness ==
    /\ last_op.op = "new"
    /\ last_op.res.ok
    /\ last_op.day = 2
    /\ Cardinality(last_op.dir_before) = 2
    /\ OfDay(last_op.dir_before, 1) = last_op.dir_before
    /\ cache_dir = {}

\* ---------------------------------------------------------------- C26

\* C26: a Get never returns a body that was written on an earlier calendar
\* day than the day of the Get.
C26_NoStaleCrossDayData ==
    (last_op.op = "get" /\ last_op.got.some) =>
        FileAt(last_op.dir_before, url_to_path(Prefix, last_op.url)).day = last_op.day

\* ---------------------------------------------------------------- C22

\* The last operation was a _get that found an entry for its URL.
CacheHit ==
    /\ last_op.op = "_get"
    /\ path_is_file(last_op.dir_before, url_to_path(Prefix, last_op.url))

\* C22: a cache hit short-circuits the fetch.  When the cache holds an
\* entry for the request URL, _get returns the body of that entry, n_attempts
\* is not called (no solver request, no recover and so no restart), and the
\* client's session and the directory are as they were before the call.
C22_CacheHitShortCircuits ==
    CacheHit =>
        /\ last_op.res = Ok(FileAt(last_op.dir_before, url_to_path(Prefix, last_op.url)).body)
        /\ cres = last_op.res
        /\ last_op.fetched = NoResult
        /\ last_op.requests = 0
        /\ last_op.recoveries = 0
        /\ session = last_op.session_before
        /\ cache_dir = last_op.dir_before

C22_Witness ==
    /\ CacheHit
    /\ last_op.url = U2
    /\ last_op.res = Ok("A")
    /\ session = "held"
    /\ Cardinality(cache_dir) = 2

\* ---------------------------------------------------------------- C23

\* The last operation was a _get that found no entry for its URL.
CacheMiss ==
    /\ last_op.op = "_get"
    /\ ~path_is_file(last_op.dir_before, url_to_path(Prefix, last_op.url))

\* C23: on a miss n_attempts is called, and a body that _get returns is in
\* the cache when it is returned: a Get for the same URL finds exactly that
\* body.  When n_attempts fails, _get returns its error and the directory
\* is as it was: no entry is created or changed.
C23_MissPopulatesBeforeReturn ==
    CacheMiss =>
        /\ last_op.requests >= 1
        /\ last_op.res.ok =>
               /\ last_op.res = last_op.fetched
               /\ get(cache_dir, Prefix, last_op.url) = Found(last_op.res.message)
        /\ ~last_op.fetched.ok =>
               /\ last_op.res = last_op.fetched
               /\ cache_dir = last_op.dir_before

C23_Witness ==
    /\ CacheMiss
    /\ last_op.res = Ok("B")
    /\ last_op.url = U3
    /\ get(cache_dir, Prefix, U3) = Found("B")
    /\ Cardinality(last_op.dir_before) = 1

C23_FailureWitness ==
    /\ CacheMiss
    /\ ~last_op.fetched.ok
    /\ last_op.recoveries = 1
    /\ Cardinality(cache_dir) = 1

\* ---------------------------------------------------------------- C27

\* The tasks being polled that are not pausing.
Polling == { t \in Tasks : tstate[t].run = "polled" }

\* Some worker pauses between polls or between the phases of a restart.
SomePausing == \E t \in Tasks : tstate[t].run = "sleeping"

\* C27: a worker that pauses has suspended its task, so the pause takes
\* nothing from the others: while some worker pauses, every ready worker
\* can be polled as soon as the tasks that are really running leave a
\* thread of the runtime.
C27_PausesDoNotStallOthers ==
    SomePausing =>
        \A u \in Tasks :
            (tstate[u].run = "ready" /\ Cardinality(Polling) < threads)
                => ENABLED runtime_poll(u)

\* ---------------------------------------------------------------- C30

\* The items in the queue and in the workers' hands.
InFlight ==
    { urls[k] : k \in 1..Len(urls) } \cup { task[w] : w \in { v \in Workers : task[v] # NoTask } }

\* The output names of a backlog of n URLs, each with the URL it belongs to.
NameToUrl(n) == { << << i, Url(i)[2] >>, Url(i) >> : i \in 0..(n - 1) }

\* C30: output naming is independent of scheduling.  Every item in the
\* queue or held by a worker carries the index it got when the backlog was
\* enumerated, whatever pops and requeues it went through; every output
\* file is named by the index of its item and so belongs to one URL of the
\* backlog; and a run that delivered all items leaves the same mapping from
\* output name to URL, whichever way the workers interleaved.
C30_NamingIndependentOfScheduling ==
    /\ \A it \in InFlight : it[1] \in 0..(total - 1) /\ it = << it[1], Url(it[1]) >>
    /\ \A name \in staging : << name, Url(name[1]) >> \in NameToUrl(total)
    /\ (opc = "done" /\ result.ok) =>
           { << name, Url(name[1]) >> : name \in staging } = NameToUrl(total)

C30_Witness ==
    /\ mode = "multi"
    /\ nworkers = 2
    /\ total = 2
    /\ opc = "done"
    /\ result.ok
    /\ failed = {0}
    /\ Cardinality(staging) = 2

\* ---------------------------------------------------------------- C29

\* The worker has the cache file of its item open, to read or to write it.
AtCacheFile(w) == wpc[w] \in {"reading", "writing"}

\* C29: no cache key has two workers at it at a time: in every
\* interleaving, two workers that are reading or writing cache files are
\* at different files.
C29_OneWorkerPerCacheKey ==
    \A w \in Workers : \A v \in Workers :
        (w # v /\ AtCacheFile(w) /\ AtCacheFile(v)) => CachePath(w) # CachePath(v)

\* ---------------------------------------------------------------- C31

\* The output file of the item with index i.
OutputOf(i) == << i, Url(i)[2] >>

C31_NoFetchWitness ==
    /\ opc = "done"
    /\ result.ok
    /\ total = 2
    /\ fetched = {}
    /\ Cardinality(delivered) = 2

\* ---------------------------------------------------------------- C40

\* C40: the proxy object create_session posts carries the configured
\* credentials unchanged.  Its url and username are the proxy's, its
\* password is the proxy's password, and a password is sent only when a
\* user name is configured; without a proxy no proxy object is sent.
C40_DescriptorCarriesCredentials ==
    (sent # NoData) =>
        /\ sent.proxy.url = proxy_conf.url
        /\ sent.proxy.username = proxy_conf.username
        /\ sent.proxy.password =
               (IF proxy_conf.username # None THEN proxy_conf.password ELSE None)
\* ---------------------------------------------------------------- C34

\* The result is a non-fatal error.
NonFatalFailure(res) == ~res.ok /\ ~res.fatal

\* C34: inside n_attempts a recover starts only after a non-fatal failure (of
\* the fetch or of the recover before it); a fetch is issued only as the first
\* step of the call or directly after a recover whose create_session returned
\* Ok; after a non-fatal failure of a recover within the budget the next step
\* is another recover; and a call with max_attempts = N fetches at most N
\* times and restarts the proxy at most N - 1 times.
C34_RetryOrdering ==
    /\ [](InCall => (n_fetch <= max_attempts /\ n_restart <= max_attempts - 1
                       /\ n_recover <= max_attempts - 1))
    /\ [][ /\ (Running /\ n_recover' # n_recover) =>
                 /\ cpc = "destroy"
                 /\ \/ (fetch_res # NoResult /\ NonFatalFailure(fetch_res) /\ last_err = fetch_res)
                    \/ (n_recover >= 1 /\ NonFatalFailure(rec_res) /\ last_err = rec_res)
           /\ (Running /\ n_fetch' # n_fetch) =>
                 \/ (n_fetch = 0 /\ n_recover = 0)
                 \/ (rec_step = "create" /\ rec_res.ok /\ n_rec_ok = n_fetch)
           /\ (Running /\ n_recover >= 1 /\ NonFatalFailure(rec_res)) =>
                 /\ n_fetch' = n_fetch
                 /\ n_recover' = n_recover + 1
         ]_vars

C34_Witness ==
    /\ cpc = "returned"
    /\ has_proxy
    /\ max_attempts = 4
    /\ n_fetch = 2
    /\ n_restart = 3
    /\ n_recover = 3
    /\ n_rec_fail = 2
    /\ cres.ok

\* ---------------------------------------------------------------- C35

\* C35: every fetch a client issues, the first of a call and every one after
\* a recovery, is issued while the client holds the session token of a
\* create_session that returned Ok and that no destroy_session has dropped
\* since.
C35_FetchOnlyWithSession ==
    [][ (n_fetch' # n_fetch /\ n_fetch' # 0) =>
            /\ session = "held"
            /\ (n_recover = 0) => n_create = 0
            /\ (n_recover >= 1) => (rec_step = "create" /\ rec_res.ok)
      ]_vars

C35_Witness ==
    /\ cpc = "returned"
    /\ cres.ok
    /\ n_fetch = 3
    /\ n_rec_ok = 2
    /\ n_rec_fail >= 1
    /\ session = "held"

\* ---------------------------------------------------------------- C36

\* Every worker task has run to its end and multi_thread has returned.
MultiRunOver ==
    /\ opc = "done"
    /\ joined = nworkers
    /\ lock = {}
    /\ \A w \in Workers : wpc[w] = "terminated" /\ task[w] = NoTask

\* C36: when every call a worker makes returns, a multi-worker run comes to
\* its end for every backlog, every staging directory and every plan of fetch
\* successes and failures: every worker terminates, every worker is joined
\* and multi_thread returns a result.
C36_MultiWorkerRunTerminates == (mode = "multi") ~> MultiRunOver

C36_Witness ==
    /\ MultiRunOver
    /\ mode = "multi"
    /\ nworkers = 2
    /\ total = 2
    /\ failed # {}
    /\ delivered # {}
    /\ \E w \in Workers : ~wcreated[w]

\* ---------------------------------------------------------------- C37

\* The non-fatal Proxy error of a wait that ran out of its window.
NonFatalTimeout(res) ==
    ~res.ok /\ res.error_type = "Proxy" /\ ~res.fatal /\ IsTimeout(res)

\* C37: Api::restart returns Ok or the non-fatal timeout of one of its waits
\* and nothing else: the stop request never ends it, whether it arrived or
\* not, and a wait ends it with an error only when its window has elapsed;
\* and each restart that failed inside a recover takes one attempt of
\* n_attempts' budget, which returns that error when the budget is used up
\* and starts the next recover otherwise.
C37_RestartFailsOnlyNonFatally ==
    /\ []((rpc = "returned") => (rres.ok \/ NonFatalTimeout(rres)))
    /\ []((rec_step = "restart" /\ ~rec_res.ok) => NonFatalTimeout(rec_res))
    /\ [][ /\ (rpc = "put_stopped") => (rpc' \in {"put_stopped", "wait_stopped"} /\ rres' = rres)
           /\ (rpc \in {"wait_stopped", "wait_running", "wait_ip"} /\ rpc' = "returned" /\ ~rres'.ok) =>
                 (elapsed' >= seconds /\ elapsed' = elapsed + 1)
           /\ (n_restart' = n_restart + 1 /\ ~rres.ok) =>
                 /\ attempts' = attempts + 1
                 /\ last_err' = rres
                 /\ n_fetch' = n_fetch
                 /\ IF attempts' >= max_attempts
                    THEN cpc' = "returned" /\ cres' = rres
                    ELSE cpc' = "destroy"
         ]_vars

C37_Witness ==
    /\ cpc = "returned"
    /\ max_attempts = 3
    /\ attempts = 3
    /\ n_fetch = 1
    /\ n_recover = 2
    /\ n_restart = 2
    /\ n_rec_fail = 2
    /\ cres = Error("Proxy", FALSE, "waiting for proxy timed out")

\* ---------------------------------------------------------------- C33

\* _get has returned after a first fetch that failed with a non-fatal
\* Solution error.
FirstFetchFailedSolution ==
    /\ cpc = "returned"
    /\ first_res # NoResult
    /\ NonFatalFailure(first_res)
    /\ first_res.error_type = "Solution"

\* C33, as claimed: with or without a cache, a _get whose first fetch failed
\* with a non-fatal Solution error has run recover and fetched again before it
\* returned.
C33_RetryIndependentOfCache ==
    FirstFetchFailedSolution => (n_recover >= 1 /\ n_fetch >= 2)

\* What the code does: the retry is there with a cache, and only with one.
C33_RetryOnlyWithCache ==
    FirstFetchFailedSolution =>
        IF has_cache THEN n_recover >= 1 /\ n_fetch >= 2
        ELSE n_recover = 0 /\ n_fetch = 1 /\ cres = first_res

\* ---------------------------------------------------------------- C32

\* The solver failed one fetch of the run, for item i, and no other call.
OneFailureFor(i) ==
    /\ page_fetches[i].failures = 1
    /\ \A j \in 0..(total - 1) : j # i => page_fetches[j].failures = 0

\* C32, as claimed: a single-threaded run without a proxy in which the solver
\* failed exactly one fetch, with a non-fatal Solution error, has delivered
\* every item under its own index, has fetched the failing item exactly
\* twice, has restarted no proxy and reports success.
C32_EndToEndOneFailure ==
    \A i \in 0..(total - 1) :
        (opc = "done" /\ ~has_proxy /\ OneFailureFor(i)) =>
            /\ result.ok
            /\ delivered = Items
            /\ \A j \in 0..(total - 1) : OutputOf(j) \in staging
            /\ page_fetches[i].fetches = 2
            /\ \A j \in 0..(total - 1) : page_fetches[j].restarts = 0

\* What the code does with a cache configured.
C32_EndToEndWithCache == has_cache => C32_EndToEndOneFailure

\* ---------------------------------------------------------------- C38

\* C38, as claimed: two different URLs never have the same cache file, so a
\* Get(url) that returns a body returns what an Insert under that same URL
\* wrote.
C38_CacheKeysInjective ==
    /\ (cache_prefix # 0) =>
          \A u, v \in CacheUrls : (u # v) => url_to_path(Prefix, u) # url_to_path(Prefix, v)
    /\ (last_op.op = "get" /\ last_op.got.ok /\ last_op.got.some) =>
          << url_to_path(Prefix, last_op.url), last_op.url >> \in origin

\* The second half alone: what a Get returns was inserted under its URL.
C38_GetReturnsOwnInsert ==
    (last_op.op = "get" /\ last_op.got.ok /\ last_op.got.some) =>
        << url_to_path(Prefix, last_op.url), last_op.url >> \in origin

\* ---------------------------------------------------------------- C39

\* C39, as claimed: a page the parser rejected is not served from the cache
\* again: a worker that attempts an item whose page was rejected goes from
\* the cache lookup to n_attempts, a new solver request, never to the cached
\* file.
C39_RejectedPageNotServedAgain ==
    [][ \A w \in Workers :
          (wpc[w] = "download" /\ task[w] # NoTask /\ task[w][1] \in rejected
              /\ wpc'[w] # "download") => wpc'[w] = "n_attempts"
      ]_vars

=============================================================================
